---- MODULE Spec2Model ----
(***************************************************************************)
(* A model of the auction backend (src/backend): the players, teams,      *)
(* bids, registrations and settings collections of the document store,     *)
(* and the controllers that read and write them.  A document is a function *)
(* from the keys it holds to their values, so a key that was never written *)
(* is absent from the document's domain, as in the store.  Every handler   *)
(* is one action; it leaves in resp what the controller returned or        *)
(* raised.  The handlers whose races matter are also modelled await by    *)
(* await, as tasks, to follow requests that interleave.                    *)
(***************************************************************************)
EXTENDS Integers, Sequences, FiniteSets, TLC

VARIABLES players, teams, bids, registrations, settings, tasks, resp

vars == <<players, teams, bids, registrations, settings, tasks, resp>>

(***************************************************************************)
(* Values                                                                  *)
(***************************************************************************)

\* Python None in a field that otherwise holds a string (a status, an id).
None == "None"

\* Python None in a field that otherwise holds an integer (base_price,
\* auction_order, sold_price).  No input of the model equals it.
NoneInt == -1

DEFAULT_PURSE_BALANCE == 8000
ICON_PLAYER_COST == 1500
MAX_ICON_PLAYERS == 2

\* base_price given by create_auction_player when the request has none, and
\* the fallback of create_bid when the stored document has no such key.
DEFAULT_BASE_PRICE == 100

\* What a controller call ends with.
OK == "ok"
HTTP_400_BAD_REQUEST == "HTTP_400_BAD_REQUEST"
HTTP_404_NOT_FOUND == "HTTP_404_NOT_FOUND"
TypeError == "TypeError"

\* The statuses of schemas.AuctionStatus.
AuctionStatus == {"pending", "live", "sold", "unsold"}

(***************************************************************************)
(* Identifiers.  An id is well formed when bson.ObjectId accepts it.       *)
(***************************************************************************)
PlayerIds == {"p1", "p2", "p3"}
TeamIds == {"t1", "t2"}
\* A well-formed id that no document carries, and a string that is no ObjectId.
MissingId == "000000000000000000000000"
MalformedId == "not-an-id"

\* The ids of the registrations, and of the players their approval inserts.
RegistrationIds == {"r1", "r2"}
ApprovedPlayerIds == {"q1", "q2"}

\* The ids of the bids: a stored bid is named by its place in the collection.
BidIds == <<"b1", "b2", "b3", "b4">>

\* utils.validate_object_id: whether ObjectId(obj_id) can be built.
validate_object_id_Any(obj_id) == TRUE
validate_object_id(obj_id) ==
    obj_id \in PlayerIds \cup TeamIds \cup RegistrationIds \cup ApprovedPlayerIds
                \cup {BidIds[i] : i \in DOMAIN BidIds} \cup {MissingId}

(***************************************************************************)
(* Documents                                                               *)
(***************************************************************************)

\* dict.get(key, default)
Get(doc, key, default) == IF key \in DOMAIN doc THEN doc[key] ELSE default

\* update_one(..., {"$set": update_data}) on one document
Set(doc, update_data) ==
    [k \in (DOMAIN doc) \cup (DOMAIN update_data) |->
        IF k \in DOMAIN update_data THEN update_data[k] ELSE doc[k]]

\* The player document PlayerController.create_player inserts for a request
\* that gives the identity fields only: model_dump() writes every auction
\* field with its schema default.
CreatedPlayer(name) ==
    [name |-> name, base_price |-> NoneInt, auction_status |-> None,
     is_icon_player |-> FALSE, icon_player_team_id |-> None,
     auction_order |-> NoneInt, sold_price |-> NoneInt, sold_to_team_id |-> None]

\* The player document approve_registration inserts: no auction key at all.
ApprovedPlayer(name) == [name |-> name]

\* The player document create_auction_player inserts for a request that gives
\* the identity fields only, next_order being the order it computed.
AuctionPlayer(name, next_order) ==
    [name |-> name, base_price |-> DEFAULT_BASE_PRICE, auction_status |-> "pending",
     is_icon_player |-> FALSE, icon_player_team_id |-> None,
     auction_order |-> next_order, sold_price |-> NoneInt, sold_to_team_id |-> None]

\* The registrations collection before any registration is made.
NoRegistrations == <<>>

\* The settings collection before the first request: no document.  The
\* collection has no unique index, so it is a list of documents.
NoSettings == <<>>

\* The requests being served: none.  A request that is between two awaits
\* holds its position and its local variables in tasks.
NoTasks == <<>>

\* The team document create_team inserts for a request that gives the identity
\* fields only.
NewTeam(name) ==
    [name |-> name, purse_balance |-> DEFAULT_PURSE_BALANCE, icon_player_ids |-> <<>>]

(***************************************************************************)
(* What a handler leaves behind                                            *)
(***************************************************************************)

\* The controller raised exc before it wrote anything.
Raise(request, exc) ==
    /\ resp' = Set(request, [exc |-> exc])
    /\ UNCHANGED <<players, teams, bids, registrations, settings, tasks>>

\* The controller returned normally.
Return(request) ==
    /\ resp' = Set(request, [exc |-> OK])
    /\ UNCHANGED <<settings, tasks>>

(***************************************************************************)
(* BidController                                                           *)
(***************************************************************************)

\* The positions in bids of the bids on a player: find({"player_id": player_id})
BidsFor(player_id) == {i \in 1..Len(bids) : bids[i].player_id = player_id}

\* find_one({"player_id": player_id}, sort=[("amount", -1)]).get("amount", 0),
\* for a player that has a bid
HighestAmount(player_id) ==
    CHOOSE a \in {bids[i].amount : i \in BidsFor(player_id)} :
        \A i \in BidsFor(player_id) : bids[i].amount <= a

\* create_bid's purse check: if bid_data.amount > purse_balance
InsufficientPurse_GE(amount, purse_balance) == amount >= purse_balance
InsufficientPurse(amount, purse_balance) == amount > purse_balance

\* create_bid's check against the bid history: the exception it ends with, or
\* OK.  Python cannot order an int and None, so a stored base_price of None
\* makes the comparison of a first bid raise TypeError.
BidCheck(player_id, amount, base_price) ==
    IF BidsFor(player_id) = {}
    THEN IF base_price = NoneInt THEN TypeError
         ELSE IF amount < base_price THEN HTTP_400_BAD_REQUEST ELSE OK
    ELSE IF amount <= HighestAmount(player_id) THEN HTTP_400_BAD_REQUEST ELSE OK

\* The document create_bid inserts (its timestamps are the position in bids).
bid_doc(player_id, team_id, amount, team) ==
    [player_id |-> player_id, team_id |-> team_id, amount |-> amount,
     team_name |-> Get(team, "name", None)]

\* What create_bid writes once the bid has passed its checks: the bid, and the
\* player's status.
insert_bid_Debit(request, team) ==
    /\ bids' = Append(bids, bid_doc(request.player_id, request.team_id,
                                    request.amount, team))
    /\ players' = [players EXCEPT ![request.player_id] =
                      Set(@, [auction_status |-> "live"])]
    /\ teams' = [teams EXCEPT ![request.team_id] =
                    Set(@, [purse_balance |-> team.purse_balance - request.amount])]
    /\ UNCHANGED registrations
insert_bid(request, team) ==
    /\ bids' = Append(bids, bid_doc(request.player_id, request.team_id,
                                    request.amount, team))
    /\ players' = [players EXCEPT ![request.player_id] =
                      Set(@, [auction_status |-> "live"])]
    /\ UNCHANGED <<teams, registrations>>

create_bid(player_id, team_id, amount) ==
    LET request == [op |-> "create_bid", player_id |-> player_id,
                    team_id |-> team_id, amount |-> amount]
    IN  IF ~validate_object_id(player_id) \/ ~validate_object_id(team_id)
        THEN Raise(request, HTTP_400_BAD_REQUEST)
        ELSE IF player_id \notin DOMAIN players
        THEN Raise(request, HTTP_404_NOT_FOUND)
        ELSE IF team_id \notin DOMAIN teams
        THEN Raise(request, HTTP_404_NOT_FOUND)
        ELSE LET player == players[player_id]
                 team == teams[team_id]
                 purse_balance == Get(team, "purse_balance", DEFAULT_PURSE_BALANCE)
                 base_price == Get(player, "base_price", DEFAULT_BASE_PRICE)
             IN  IF InsufficientPurse(amount, purse_balance)
                 THEN Raise(request, HTTP_400_BAD_REQUEST)
                 ELSE IF BidCheck(player_id, amount, base_price) # OK
                 THEN Raise(request, BidCheck(player_id, amount, base_price))
                 ELSE insert_bid(request, team) /\ Return(request)

(***************************************************************************)
(* AuctionController                                                       *)
(***************************************************************************)

\* update_auction_status writes the status it is given over the one stored,
\* whatever that is, and no other field.
update_auction_status_Reset(player_id, new_status) ==
    LET request == [op |-> "update_auction_status", player_id |-> player_id,
                    new_status |-> new_status]
    IN  IF ~validate_object_id(player_id)
        THEN Raise(request, HTTP_400_BAD_REQUEST)
        ELSE IF player_id \notin DOMAIN players
        THEN Raise(request, HTTP_404_NOT_FOUND)
        ELSE /\ players' = [players EXCEPT ![player_id] =
                               Set(@, [auction_status |-> new_status,
                                       sold_price |-> NoneInt,
                                       sold_to_team_id |-> None])]
             /\ UNCHANGED <<teams, bids, registrations>>
             /\ Return(request)
update_auction_status(player_id, new_status) ==
    LET request == [op |-> "update_auction_status", player_id |-> player_id,
                    new_status |-> new_status]
    IN  IF ~validate_object_id(player_id)
        THEN Raise(request, HTTP_400_BAD_REQUEST)
        ELSE IF player_id \notin DOMAIN players
        THEN Raise(request, HTTP_404_NOT_FOUND)
        ELSE /\ players' = [players EXCEPT ![player_id] =
                               Set(@, [auction_status |-> new_status])]
             /\ UNCHANGED <<teams, bids, registrations>>
             /\ Return(request)

\* finalize_player_sale's balance check: if sale_price > current_balance
ExceedsBalance_GE(sale_price, current_balance) == sale_price >= current_balance
ExceedsBalance(sale_price, current_balance) == sale_price > current_balance

\* finalize_player_sale's new_balance
new_balance_NoDebit(current_balance, sale_price) == current_balance
new_balance(current_balance, sale_price) == current_balance - sale_price

\* finalize_player_sale reads of the player nothing: neither its status nor
\* the bids on it decide whether the sale is made.
finalize_player_sale_LiveOnly(player_id, team_id, sale_price) ==
    LET request == [op |-> "finalize_player_sale", player_id |-> player_id,
                    team_id |-> team_id, sale_price |-> sale_price]
    IN  IF ~validate_object_id(player_id) \/ ~validate_object_id(team_id)
        THEN Raise(request, HTTP_400_BAD_REQUEST)
        ELSE IF team_id \notin DOMAIN teams
        THEN Raise(request, HTTP_404_NOT_FOUND)
        ELSE LET current_balance ==
                     Get(teams[team_id], "purse_balance", DEFAULT_PURSE_BALANCE)
             IN  IF ExceedsBalance(sale_price, current_balance)
                 THEN Raise(request, HTTP_400_BAD_REQUEST)
                 ELSE IF player_id \notin DOMAIN players
                 THEN Raise(request, HTTP_404_NOT_FOUND)
                 ELSE IF Get(players[player_id], "auction_status", None) # "live"
                 THEN Raise(request, HTTP_400_BAD_REQUEST)
                 ELSE /\ players' = [players EXCEPT ![player_id] =
                                        Set(@, [auction_status |-> "sold",
                                                sold_to_team_id |-> team_id,
                                                sold_price |-> sale_price])]
                      /\ teams' = [teams EXCEPT ![team_id] =
                                      Set(@, [purse_balance |->
                                          new_balance(current_balance, sale_price)])]
                      /\ UNCHANGED <<bids, registrations>>
                      /\ Return(request)
finalize_player_sale(player_id, team_id, sale_price) ==
    LET request == [op |-> "finalize_player_sale", player_id |-> player_id,
                    team_id |-> team_id, sale_price |-> sale_price]
    IN  IF ~validate_object_id(player_id) \/ ~validate_object_id(team_id)
        THEN Raise(request, HTTP_400_BAD_REQUEST)
        ELSE IF team_id \notin DOMAIN teams
        THEN Raise(request, HTTP_404_NOT_FOUND)
        ELSE LET current_balance ==
                     Get(teams[team_id], "purse_balance", DEFAULT_PURSE_BALANCE)
             IN  IF ExceedsBalance(sale_price, current_balance)
                 THEN Raise(request, HTTP_400_BAD_REQUEST)
                 ELSE IF player_id \notin DOMAIN players
                 THEN Raise(request, HTTP_404_NOT_FOUND)
                 ELSE /\ players' = [players EXCEPT ![player_id] =
                                        Set(@, [auction_status |-> "sold",
                                                sold_to_team_id |-> team_id,
                                                sold_price |-> sale_price])]
                      /\ teams' = [teams EXCEPT ![team_id] =
                                      Set(@, [purse_balance |->
                                          new_balance(current_balance, sale_price)])]
                      /\ UNCHANGED <<bids, registrations>>
                      /\ Return(request)

\* mark_player_unsold writes the player only: the team that bought the player
\* gets nothing back.
mark_player_unsold_Refund(player_id) ==
    LET request == [op |-> "mark_player_unsold", player_id |-> player_id]
    IN  IF ~validate_object_id(player_id)
        THEN Raise(request, HTTP_400_BAD_REQUEST)
        ELSE IF player_id \notin DOMAIN players
        THEN Raise(request, HTTP_404_NOT_FOUND)
        ELSE LET buyer == Get(players[player_id], "sold_to_team_id", None)
             IN  /\ players' = [players EXCEPT ![player_id] =
                                   Set(@, [auction_status |-> "unsold",
                                           sold_price |-> NoneInt,
                                           sold_to_team_id |-> None])]
                 /\ teams' = [t \in DOMAIN teams |->
                                 IF t = buyer
                                 THEN Set(teams[t], [purse_balance |->
                                          teams[t].purse_balance
                                              + players[player_id].sold_price])
                                 ELSE teams[t]]
                 /\ UNCHANGED <<bids, registrations>>
                 /\ Return(request)
mark_player_unsold(player_id) ==
    LET request == [op |-> "mark_player_unsold", player_id |-> player_id]
    IN  IF ~validate_object_id(player_id)
        THEN Raise(request, HTTP_400_BAD_REQUEST)
        ELSE IF player_id \notin DOMAIN players
        THEN Raise(request, HTTP_404_NOT_FOUND)
        ELSE /\ players' = [players EXCEPT ![player_id] =
                               Set(@, [auction_status |-> "unsold",
                                       sold_price |-> NoneInt,
                                       sold_to_team_id |-> None])]
             /\ UNCHANGED <<teams, bids, registrations>>
             /\ Return(request)

(***************************************************************************)
(* IconPlayerController                                                    *)
(***************************************************************************)

\* assign_icon_player's cap: if len(icon_player_ids) >= MAX_ICON_PLAYERS
IconListFull_GT(icon_player_ids) == Len(icon_player_ids) > MAX_ICON_PLAYERS
IconListFull(icon_player_ids) == Len(icon_player_ids) >= MAX_ICON_PLAYERS

\* The purse both icon operations store: it is computed from the length of the
\* icon list alone.
new_purse_balance_OneIcon(icon_player_ids) ==
    DEFAULT_PURSE_BALANCE - ICON_PLAYER_COST
new_purse_balance(icon_player_ids) ==
    DEFAULT_PURSE_BALANCE - (Len(icon_player_ids) * ICON_PLAYER_COST)

assign_icon_player(player_id, team_id) ==
    LET request == [op |-> "assign_icon_player", player_id |-> player_id,
                    team_id |-> team_id]
    IN  IF ~validate_object_id(player_id) \/ ~validate_object_id(team_id)
        THEN Raise(request, HTTP_400_BAD_REQUEST)
        ELSE IF player_id \notin DOMAIN players
        THEN Raise(request, HTTP_404_NOT_FOUND)
        ELSE IF Get(players[player_id], "is_icon_player", FALSE)
        THEN Raise(request, HTTP_400_BAD_REQUEST)
        ELSE IF team_id \notin DOMAIN teams
        THEN Raise(request, HTTP_404_NOT_FOUND)
        ELSE IF IconListFull(Get(teams[team_id], "icon_player_ids", <<>>))
        THEN Raise(request, HTTP_400_BAD_REQUEST)
        ELSE LET icon_player_ids ==
                     Append(Get(teams[team_id], "icon_player_ids", <<>>), player_id)
             IN  /\ players' = [players EXCEPT ![player_id] =
                                   Set(@, [is_icon_player |-> TRUE,
                                           icon_player_team_id |-> team_id])]
                 /\ teams' = [teams EXCEPT ![team_id] =
                                 Set(@, [icon_player_ids |-> icon_player_ids,
                                         purse_balance |->
                                             new_purse_balance(icon_player_ids)])]
                 /\ UNCHANGED <<bids, registrations>>
                 /\ Return(request)

\* list.remove(x) when x is in the list: the list without the first x
Remove_Nothing(list, x) == list
RECURSIVE Remove(_, _)
Remove(list, x) ==
    IF list = <<>> THEN <<>>
    ELSE IF Head(list) = x THEN Tail(list)
    ELSE <<Head(list)>> \o Remove(Tail(list), x)

unassign_icon_player(player_id) ==
    LET request == [op |-> "unassign_icon_player", player_id |-> player_id]
    IN  IF ~validate_object_id(player_id)
        THEN Raise(request, HTTP_400_BAD_REQUEST)
        ELSE IF player_id \notin DOMAIN players
        THEN Raise(request, HTTP_404_NOT_FOUND)
        ELSE IF ~Get(players[player_id], "is_icon_player", FALSE)
        THEN Raise(request, HTTP_400_BAD_REQUEST)
        ELSE LET team_id == Get(players[player_id], "icon_player_team_id", None)
             IN  /\ players' = [players EXCEPT ![player_id] =
                                   Set(@, [is_icon_player |-> FALSE,
                                           icon_player_team_id |-> None])]
                 /\ IF team_id # None /\ validate_object_id(team_id)
                       /\ team_id \in DOMAIN teams
                    THEN LET icon_player_ids ==
                                 Remove(Get(teams[team_id], "icon_player_ids", <<>>),
                                        player_id)
                         IN  teams' = [teams EXCEPT ![team_id] =
                                 Set(@, [icon_player_ids |-> icon_player_ids,
                                         purse_balance |->
                                             new_purse_balance(icon_player_ids)])]
                    ELSE UNCHANGED teams
                 /\ UNCHANGED <<bids, registrations>>
                 /\ Return(request)

(***************************************************************************)
(* AuctionOrderController                                                  *)
(***************************************************************************)

\* The players a randomization reorders: find({"auction_status": "pending"}),
\* or find({"auction_status": {"$ne": None}}).
randomize_query(only_pending) ==
    IF only_pending
    THEN {p \in DOMAIN players : Get(players[p], "auction_status", None) = "pending"}
    ELSE {p \in DOMAIN players : Get(players[p], "auction_status", None) # None}

\* The orders random.shuffle can leave a list of these ids in.
Shuffles(ids) ==
    {seq \in [1..Cardinality(ids) -> ids] :
        \A i, j \in 1..Cardinality(ids) : i # j => seq[i] # seq[j]}

\* The position of an id in a list that holds it once.
IndexOf(seq, x) == CHOOSE i \in 1..Len(seq) : seq[i] = x

\* for i, player_id in enumerate(player_ids): new_order = i + 1, the list
\* being indexed from 1 here: rank is i + 1.
shuffled_order_FromZero(rank) == rank - 1
shuffled_order(rank) == rank

randomize_auction_order(only_pending) ==
    LET request == [op |-> "randomize_auction_order", only_pending |-> only_pending]
        player_list == randomize_query(only_pending)
    IN  IF player_list = {}
        THEN /\ Return(Set(request, [randomized |-> 0]))
             /\ UNCHANGED <<players, teams, bids, registrations>>
        ELSE \E player_ids \in Shuffles(player_list) :
                 /\ players' = [p \in DOMAIN players |->
                                   IF p \in player_list
                                   THEN Set(players[p],
                                            [auction_order |->
                                                shuffled_order(IndexOf(player_ids, p))])
                                   ELSE players[p]]
                 /\ UNCHANGED <<teams, bids, registrations>>
                 /\ Return(Set(request, [randomized |-> Cardinality(player_list)]))

\* The order update_auction_order gives the player that held the target order:
\* the current player's order.
swapped_order_Target(current_order, new_order) == new_order
swapped_order(current_order, new_order) == current_order

update_auction_order(player_id, new_order) ==
    LET request == [op |-> "update_auction_order", player_id |-> player_id,
                    new_order |-> new_order]
    IN  IF ~validate_object_id(player_id)
        THEN Raise(Set(request, [swapped_with |-> None]), HTTP_400_BAD_REQUEST)
        ELSE IF player_id \notin DOMAIN players
        THEN Raise(Set(request, [swapped_with |-> None]), HTTP_404_NOT_FOUND)
        ELSE LET current_order == Get(players[player_id], "auction_order", NoneInt)
                 \* find({"auction_order": new_order, "_id": {"$ne": player_id}})
                 holders == {q \in DOMAIN players \ {player_id} :
                                Get(players[q], "auction_order", NoneInt) = new_order}
             IN  IF holders # {}
                 THEN \* find_one returns one of them
                      \E player_with_target_order \in holders :
                          /\ players' = [players EXCEPT
                                ![player_with_target_order] =
                                    Set(@, [auction_order |->
                                        swapped_order(current_order, new_order)]),
                                ![player_id] = Set(@, [auction_order |-> new_order])]
                          /\ UNCHANGED <<teams, bids, registrations>>
                          /\ Return(Set(request,
                                 [swapped_with |-> player_with_target_order]))
                 ELSE /\ players' = [players EXCEPT ![player_id] =
                                        Set(@, [auction_order |-> new_order])]
                      /\ UNCHANGED <<teams, bids, registrations>>
                      /\ Return(Set(request, [swapped_with |-> None]))

(***************************************************************************)
(* The auction pool: create_auction_player and the two initializations of  *)
(* AuctionOrderController.                                                 *)
(***************************************************************************)

\* Python's `value or default`, for an Optional[int] and for an Optional[str]:
\* None and 0, and None, are falsy.
IntOr(value, default) == IF value = NoneInt \/ value = 0 THEN default ELSE value
StrOr(value, default) == IF value = None THEN default ELSE value

\* find_one({"auction_order": {"$ne": None}}, sort=[("auction_order", -1)])
\* .get("auction_order", 0), or 0 when no player has an order.
max_order_Count == Cardinality(DOMAIN players)
max_order ==
    LET orders == {Get(players[p], "auction_order", NoneInt) : p \in DOMAIN players}
                      \ {NoneInt}
    IN  IF orders = {} THEN 0
        ELSE CHOOSE m \in orders : \A o \in orders : o <= m

\* The document create_auction_player inserts for a PlayerCreate that gives
\* a name and may give base_price, auction_order and auction_status.
player_dict(player_data, next_order) ==
    [name |-> player_data.name,
     base_price |-> IntOr(player_data.base_price, DEFAULT_BASE_PRICE),
     auction_status |-> StrOr(player_data.auction_status, "pending"),
     is_icon_player |-> FALSE, icon_player_team_id |-> None,
     auction_order |-> IntOr(player_data.auction_order, next_order),
     sold_price |-> NoneInt, sold_to_team_id |-> None]

\* The request's phone is one no player has, so the insert passes the unique
\* index on phone.
create_auction_player(player_data) ==
    LET request == [op |-> "create_auction_player", player_data |-> player_data]
        next_order == max_order + 1
    IN  \E inserted_id \in PlayerIds \ DOMAIN players :
            /\ players' = players @@ (inserted_id :> player_dict(player_data, next_order))
            /\ UNCHANGED <<teams, bids, registrations>>
            /\ Return(Set(request, [inserted_id |-> inserted_id]))

\* find({"$or": [{"auction_status": None}, {"auction_status": {"$exists": False}}]})
players_not_in_auction ==
    {p \in DOMAIN players : Get(players[p], "auction_status", None) = None}

\* The players are updated in the order find returns them, each with the next
\* order after the current maximum.
initialize_auction_for_all_players(base_price) ==
    LET request == [op |-> "initialize_auction_for_all_players",
                    base_price |-> base_price]
    IN  IF players_not_in_auction = {}
        THEN /\ Return(Set(request, [initialized |-> 0]))
             /\ UNCHANGED <<players, teams, bids, registrations>>
        ELSE \E found \in Shuffles(players_not_in_auction) :
                 /\ players' = [p \in DOMAIN players |->
                        IF p \in players_not_in_auction
                        THEN Set(players[p],
                                 [base_price |-> base_price,
                                  auction_status |-> "pending",
                                  is_icon_player |-> FALSE,
                                  icon_player_team_id |-> None,
                                  auction_order |-> max_order + IndexOf(found, p),
                                  sold_price |-> NoneInt,
                                  sold_to_team_id |-> None])
                        ELSE players[p]]
                 /\ UNCHANGED <<teams, bids, registrations>>
                 /\ Return(Set(request, [initialized |-> Cardinality(players_not_in_auction)]))

\* find({"auction_status": {"$ne": None},
\*       "$or": [{"auction_order": None}, {"auction_order": {"$exists": False}}]})
players_without_order ==
    {p \in DOMAIN players :
        /\ Get(players[p], "auction_status", None) # None
        /\ Get(players[p], "auction_order", NoneInt) = NoneInt}

\* new_order = current_max + i + 1, i counting from 0.
initialize_auction_order ==
    LET request == [op |-> "initialize_auction_order"]
    IN  IF players_without_order = {}
        THEN /\ Return(Set(request, [updated |-> 0]))
             /\ UNCHANGED <<players, teams, bids, registrations>>
        ELSE \E found \in Shuffles(players_without_order) :
                 /\ players' = [p \in DOMAIN players |->
                        IF p \in players_without_order
                        THEN Set(players[p],
                                 [auction_order |-> max_order + (IndexOf(found, p) - 1) + 1])
                        ELSE players[p]]
                 /\ UNCHANGED <<teams, bids, registrations>>
                 /\ Return(Set(request, [updated |-> Cardinality(players_without_order)]))

(***************************************************************************)
(* RegistrationController.  A payment reference is a string, held as the   *)
(* sequence of its characters.                                             *)
(***************************************************************************)

\* The statuses of schemas.RegistrationStatus.
RegistrationStatus == {"pending", "approved", "rejected"}

\* What a database write raises when it breaks a unique index.
DuplicateKeyError == "DuplicateKeyError"

\* str.strip(): the string without its leading and trailing blanks.
RECURSIVE lstrip(_)
lstrip(str) ==
    IF str # <<>> /\ Head(str) = " " THEN lstrip(Tail(str)) ELSE str

RECURSIVE rstrip(_)
rstrip(str) ==
    IF str # <<>> /\ str[Len(str)] = " "
    THEN rstrip(SubSeq(str, 1, Len(str) - 1)) ELSE str

strip(str) == rstrip(lstrip(str))

\* The registration document create_registration inserts.
registration_doc(player_name, phone) ==
    [player_name |-> player_name, phone |-> phone,
     status |-> "pending", rejection_reason |-> None]

\* find_one({"phone": phone}) finds a document of a collection.
PhoneIn(collection, phone) ==
    \E id \in DOMAIN collection : Get(collection[id], "phone", None) = phone

\* The id insert_one gives a new registration: one that no registration has.
create_registration(player_name, phone) ==
    LET request == [op |-> "create_registration", player_name |-> player_name,
                    phone |-> phone]
    IN  IF PhoneIn(registrations, phone)
        THEN Raise(request, HTTP_400_BAD_REQUEST)
        ELSE IF PhoneIn(players, phone)
        THEN Raise(request, HTTP_400_BAD_REQUEST)
        ELSE \E inserted_id \in RegistrationIds \ DOMAIN registrations :
                 /\ registrations' =
                        registrations @@ (inserted_id :> registration_doc(player_name, phone))
                 /\ UNCHANGED <<players, teams, bids>>
                 /\ Return(Set(request, [inserted_id |-> inserted_id]))

\* A RegistrationUpdate without its None fields: the update_data of
\* update_registration.
update_data(registration_data) ==
    [k \in {f \in DOMAIN registration_data : registration_data[f] # None} |->
        registration_data[k]]

update_registration(registration_id, registration_data) ==
    LET request == [op |-> "update_registration", registration_id |-> registration_id,
                    registration_data |-> registration_data]
    IN  IF ~validate_object_id(registration_id)
        THEN Raise(request, HTTP_400_BAD_REQUEST)
        ELSE IF registration_id \notin DOMAIN registrations
        THEN Raise(request, HTTP_404_NOT_FOUND)
        ELSE /\ registrations' = [registrations EXCEPT ![registration_id] =
                                     Set(@, update_data(registration_data))]
             /\ UNCHANGED <<players, teams, bids>>
             /\ Return(request)

\* approve_registration's check of the payment reference:
\* find_one({"payment_reference": payment_reference, "status": "approved"})
existing_payment(payment_reference) ==
    \E r \in DOMAIN registrations :
        /\ "payment_reference" \in DOMAIN registrations[r]
        /\ registrations[r].payment_reference = payment_reference
        /\ registrations[r].status = "approved"

\* The player document approve_registration inserts: the identity fields of
\* the registration and no auction key.
player_doc_SameKeys(registration) ==
    [name |-> Get(registration, "name", None),
     email |-> Get(registration, "email", None),
     phone |-> Get(registration, "phone", None),
     role |-> Get(registration, "role", None),
     place |-> Get(registration, "place", None),
     image_url |-> Get(registration, "image_url", None)]
player_doc(registration) ==
    [name |-> Get(registration, "player_name", None),
     email |-> Get(registration, "email", None),
     phone |-> Get(registration, "phone", None),
     role |-> Get(registration, "role", None),
     place |-> Get(registration, "place", None),
     image_url |-> Get(registration, "player_image_url", None)]

\* approve_registration writes the registration first and inserts the player
\* after it; the players collection has a unique index on phone, so the
\* insert raises when a player already carries the registration's phone, and
\* the registration stays written.
approve_registration(registration_id, payment_reference) ==
    LET request == [op |-> "approve_registration", registration_id |-> registration_id,
                    payment_reference |-> payment_reference]
    IN  IF ~validate_object_id(registration_id)
        THEN Raise(request, HTTP_400_BAD_REQUEST)
        ELSE IF payment_reference = <<>> \/ strip(payment_reference) = <<>>
        THEN Raise(request, HTTP_400_BAD_REQUEST)
        ELSE IF existing_payment(strip(payment_reference))
        THEN Raise(request, HTTP_400_BAD_REQUEST)
        ELSE IF registration_id \notin DOMAIN registrations
        THEN Raise(request, HTTP_404_NOT_FOUND)
        ELSE LET registration == registrations[registration_id]
             IN  /\ registrations' = [registrations EXCEPT ![registration_id] =
                        Set(@, [status |-> "approved", rejection_reason |-> None,
                                payment_reference |-> strip(payment_reference)])]
                 /\ UNCHANGED <<teams, bids>>
                 /\ IF PhoneIn(players, Get(registration, "phone", None))
                    THEN /\ UNCHANGED players
                         /\ resp' = Set(request, [exc |-> DuplicateKeyError])
                         /\ UNCHANGED <<settings, tasks>>
                    ELSE \E inserted_id \in ApprovedPlayerIds \ DOMAIN players :
                             /\ players' = players @@ (inserted_id :> player_doc(registration))
                             /\ Return(request)

reject_registration(registration_id, rejection_reason) ==
    LET request == [op |-> "reject_registration", registration_id |-> registration_id,
                    rejection_reason |-> rejection_reason]
    IN  IF ~validate_object_id(registration_id)
        THEN Raise(request, HTTP_400_BAD_REQUEST)
        ELSE IF registration_id \notin DOMAIN registrations
        THEN Raise(request, HTTP_404_NOT_FOUND)
        ELSE /\ registrations' = [registrations EXCEPT ![registration_id] =
                                     Set(@, [status |-> "rejected",
                                             rejection_reason |-> rejection_reason])]
             /\ UNCHANGED <<players, teams, bids>>
             /\ Return(request)

(***************************************************************************)
(* Routes.  A route calls its controller inside try, and answers what the  *)
(* controller returned with create_response, or the exception it caught    *)
(* with create_error_response.                                             *)
(***************************************************************************)

\* The routes that catch HTTPException before Exception and answer with its
\* status_code; every other route answers any exception with 400.
KeepsStatusCode == {"create_registration", "approve_registration"}

\* The routes that answer a result with 201; the others answer it with 200.
AnswersCreated ==
    {"create_bid", "assign_icon_player", "create_registration",
     "create_player", "create_team", "create_auction_player"}

\* The routes that answer any exception with 404: the reads of one record.
AnswersNotFound == {"get_player", "get_team", "get_registration"}

\* The status code of the answer to a served request.
status_code(response) ==
    IF response.exc = OK
    THEN IF response.op \in AnswersCreated THEN 201 ELSE 200
    ELSE IF response.op \in AnswersNotFound
    THEN 404
    ELSE IF response.op \in KeepsStatusCode /\ response.exc = HTTP_404_NOT_FOUND
    THEN 404
    ELSE 400

(***************************************************************************)
(* Requests.  A request names a stored document, or one of two other ids:  *)
(* a well-formed id that names nothing, and a malformed one.               *)
(***************************************************************************)

\* The most bids the store holds: create_bid is not called beyond it.
MaxBids == 2

NoRequest == [op |-> "none", exc |-> OK]

\* The names the teams were created with.
TeamName == [t \in TeamIds |-> IF t = "t1" THEN "Alpha" ELSE "Beta"]

PlayerArgs == (DOMAIN players) \cup {MissingId, MalformedId}

\* The (player, team) pairs of the requests that name a stored player and a
\* stored team, and of those that do not.
StoredPairs == (DOMAIN players) \X (DOMAIN teams)
OtherPairs ==
    {<<MissingId, "t1">>, <<"p1", MissingId>>, <<MalformedId, "t1">>, <<"p1", MalformedId>>}

(***************************************************************************)
(* SpecBid: bidding.  Two teams as create_team makes them; p1 made by      *)
(* create_auction_player, p2 by create_player or by approve_registration.  *)
(* Bids are placed around the base price and around the bidder's purse; a  *)
(* sale at 7500 takes a purse from 8000 to 500.                            *)
(***************************************************************************)
InitBid ==
    /\ teams = [t \in TeamIds |-> NewTeam(TeamName[t])]
    /\ \E second \in {CreatedPlayer("p2"), ApprovedPlayer("p2")} :
          players = [p \in {"p1", "p2"} |->
                        IF p = "p1" THEN AuctionPlayer("p1", 1) ELSE second]
    /\ bids = <<>>
    /\ registrations = NoRegistrations
    /\ settings = NoSettings
    /\ tasks = NoTasks
    /\ resp = NoRequest

BidAmounts(pt) ==
    IF pt \in OtherPairs THEN {DEFAULT_BASE_PRICE}
    ELSE {DEFAULT_BASE_PRICE - 1, DEFAULT_BASE_PRICE, DEFAULT_BASE_PRICE + 1,
          teams[pt[2]].purse_balance, teams[pt[2]].purse_balance + 1}

PlaceBid ==
    /\ Len(bids) < MaxBids
    /\ \E pt \in StoredPairs \cup OtherPairs :
          \E amount \in BidAmounts(pt) : create_bid(pt[1], pt[2], amount)

BigSale ==
    \E pt \in StoredPairs : finalize_player_sale(pt[1], pt[2], 7500)

NextBid == PlaceBid \/ BigSale

SpecBid == InitBid /\ [][NextBid]_vars

(***************************************************************************)
(* Properties of bidding                                                   *)
(***************************************************************************)

\* The base price a player has: the stored one, or the default when the
\* document holds none.
BasePriceOf(player) ==
    IF Get(player, "base_price", NoneInt) = NoneInt
    THEN DEFAULT_BASE_PRICE ELSE player.base_price

\* A step that served a create_bid request naming a stored player and team.
BidStep == resp'.op = "create_bid" /\ <<resp'.player_id, resp'.team_id>> \in StoredPairs

\* The bid is acceptable against the bid history of its player.
BeatsHistory(player_id, amount) ==
    \/ BidsFor(player_id) = {} /\ amount >= BasePriceOf(players[player_id])
    \/ BidsFor(player_id) # {} /\ amount > HighestAmount(player_id)

\* C1: a bid within the team's purse is accepted if and only if it is the
\* player's first bid and at least the player's base price (100 when none is
\* stored), or it is strictly greater than the player's highest bid;
\* otherwise it fails with HTTP 400 and no bid is stored.
C1_AcceptedIffBeatsHistory ==
    [][(BidStep /\ resp'.amount <= teams[resp'.team_id].purse_balance) =>
          /\ (resp'.exc = OK) <=> BeatsHistory(resp'.player_id, resp'.amount)
          /\ resp'.exc # OK => resp'.exc = HTTP_400_BAD_REQUEST /\ bids' = bids]_vars

\* C2: a bid above the team's purse fails with HTTP 400; a bid equal to the
\* purse that beats the player's bid history is accepted; a rejected bid
\* stores no bid and changes no player.
C2_PurseLimit ==
    [][BidStep =>
          /\ resp'.amount > teams[resp'.team_id].purse_balance =>
                resp'.exc = HTTP_400_BAD_REQUEST
          /\ ( /\ resp'.amount = teams[resp'.team_id].purse_balance
               /\ BidsFor(resp'.player_id) # {}
               /\ resp'.amount > HighestAmount(resp'.player_id) ) =>
                resp'.exc = OK
          /\ ( /\ resp'.amount = teams[resp'.team_id].purse_balance
               /\ BidsFor(resp'.player_id) = {}
               /\ Get(players[resp'.player_id], "base_price", DEFAULT_BASE_PRICE) # NoneInt
               /\ resp'.amount >= Get(players[resp'.player_id], "base_price",
                                      DEFAULT_BASE_PRICE) ) =>
                resp'.exc = OK
          /\ resp'.exc # OK => bids' = bids /\ players' = players /\ teams' = teams]_vars

\* A team whose purse is 500 has bid 500, which was accepted, and its bid of
\* 501 has just been rejected.
C2_Witness ==
    /\ resp.op = "create_bid"
    /\ resp.exc = HTTP_400_BAD_REQUEST
    /\ resp.amount = 501
    /\ resp.team_id \in DOMAIN teams
    /\ teams[resp.team_id].purse_balance = 500
    /\ \E i \in 1..Len(bids) : bids[i].team_id = resp.team_id /\ bids[i].amount = 500

\* C6: an accepted bid appends exactly one bid (the player, the team, the
\* amount, the team's name as stored), sets that player's status to live and
\* changes nothing else: no other player, no team.  In the bidding flow only
\* a sale changes a team.
C6_BidEffect ==
    [][ /\ (BidStep /\ resp'.exc = OK) =>
              /\ bids' = Append(bids, [player_id |-> resp'.player_id,
                                       team_id |-> resp'.team_id,
                                       amount |-> resp'.amount,
                                       team_name |-> teams[resp'.team_id].name])
              /\ players' = [players EXCEPT ![resp'.player_id] =
                                Set(@, [auction_status |-> "live"])]
              /\ teams' = teams
        /\ teams' # teams => resp'.op = "finalize_player_sale" ]_vars

\* A second bid on a player has just been accepted: the player was live
\* before it and is live after it.
C6_Witness ==
    /\ resp.op = "create_bid"
    /\ resp.exc = OK
    /\ Cardinality(BidsFor(resp.player_id)) = 2
    /\ players[resp.player_id].auction_status = "live"
    /\ \A t \in DOMAIN teams : teams[t].purse_balance = DEFAULT_PURSE_BALANCE

(***************************************************************************)
(* SpecSale: sales.  The store of InitBid; players are sold at 1000 and at *)
(* 1500 until the purses are spent, and marked unsold.                     *)
(***************************************************************************)
SalePrices == {1000, ICON_PLAYER_COST}

FinalizeSale ==
    \E pt \in StoredPairs \cup OtherPairs, sale_price \in SalePrices :
        finalize_player_sale(pt[1], pt[2], sale_price)

MarkUnsold == \E player_id \in PlayerArgs : mark_player_unsold(player_id)

NextSale == FinalizeSale \/ MarkUnsold

SpecSale == InitBid /\ [][NextSale]_vars

\* A step that served a finalize_player_sale request.
SaleStep == resp'.op = "finalize_player_sale"

\* C4: a successful sale sets the player's status to sold, its buyer and its
\* price, and lowers the buyer's purse by the price; no other player, no other
\* team and no bid changes.
C4_SaleEffect ==
    [][(SaleStep /\ resp'.exc = OK) =>
          /\ players' = [players EXCEPT ![resp'.player_id] =
                            Set(@, [auction_status |-> "sold",
                                    sold_to_team_id |-> resp'.team_id,
                                    sold_price |-> resp'.sale_price])]
          /\ teams' = [teams EXCEPT ![resp'.team_id] =
                          Set(@, [purse_balance |->
                              teams[resp'.team_id].purse_balance - resp'.sale_price])]
          /\ bids' = bids]_vars

\* A team that started at 8000 bought one player at 1500 and has just bought
\* another at 1000: its purse is 5500, the other team's is untouched.
C4_Witness ==
    /\ resp.op = "finalize_player_sale"
    /\ resp.exc = OK
    /\ resp.sale_price = 1000
    /\ teams[resp.team_id].purse_balance = 5500
    /\ \E q \in DOMAIN players \ {resp.player_id} :
          /\ Get(players[q], "sold_to_team_id", None) = resp.team_id
          /\ Get(players[q], "sold_price", NoneInt) = 1500
    /\ \A t \in DOMAIN teams \ {resp.team_id} :
          teams[t].purse_balance = DEFAULT_PURSE_BALANCE

\* C5: a sale at more than the team's purse fails with HTTP 400 and changes
\* nothing; a sale of a stored player at exactly the purse is accepted and
\* leaves the purse at 0.
C5_SaleWithinPurse ==
    [][(SaleStep /\ resp'.team_id \in DOMAIN teams /\ validate_object_id(resp'.player_id)) =>
          /\ resp'.sale_price > teams[resp'.team_id].purse_balance =>
                /\ resp'.exc = HTTP_400_BAD_REQUEST
                /\ UNCHANGED <<players, teams, bids>>
          /\ ( /\ resp'.sale_price = teams[resp'.team_id].purse_balance
               /\ resp'.player_id \in DOMAIN players ) =>
                /\ resp'.exc = OK
                /\ teams'[resp'.team_id].purse_balance = 0]_vars

\* A team has spent its whole purse, the last sale taking exactly what was
\* left, and its next purchase has just been refused.
C5_Witness ==
    /\ resp.op = "finalize_player_sale"
    /\ resp.exc = HTTP_400_BAD_REQUEST
    /\ <<resp.player_id, resp.team_id>> \in StoredPairs
    /\ teams[resp.team_id].purse_balance = 0

\* C15: mark_player_unsold on a stored player sets its status to unsold and
\* its sold_price and sold_to_team_id to None, changes no other field and no
\* other player, and changes no team: a team that bought the player is not
\* refunded.
C15_UnsoldEffect ==
    [][(resp'.op = "mark_player_unsold" /\ resp'.player_id \in DOMAIN players) =>
          LET player_id == resp'.player_id
          IN  /\ resp'.exc = OK
              /\ DOMAIN players' = DOMAIN players
              /\ players'[player_id].auction_status = "unsold"
              /\ players'[player_id].sold_price = NoneInt
              /\ players'[player_id].sold_to_team_id = None
              /\ \A k \in DOMAIN players[player_id] \
                        {"auction_status", "sold_price", "sold_to_team_id"} :
                    players'[player_id][k] = players[player_id][k]
              /\ \A q \in DOMAIN players \ {player_id} : players'[q] = players[q]
              /\ UNCHANGED <<teams, bids>>]_vars

\* A player that was sold has just been marked unsold, and the purse of a
\* team is still short of the sale price although no player is sold to it.
C15_Witness ==
    /\ resp.op = "mark_player_unsold"
    /\ resp.exc = OK
    /\ players[resp.player_id].auction_status = "unsold"
    /\ players[resp.player_id].sold_to_team_id = None
    /\ \E t \in DOMAIN teams :
          /\ teams[t].purse_balance = DEFAULT_PURSE_BALANCE - ICON_PLAYER_COST
          /\ \A q \in DOMAIN players : Get(players[q], "sold_to_team_id", None) # t

(***************************************************************************)
(* SpecStatus: the four operations that write a player's auction status,   *)
(* on stored players and teams: the opening bid of the auction, sales at   *)
(* half the default purse, unsold marks and status updates.                *)
(***************************************************************************)
FirstBid ==
    /\ bids = <<>>
    /\ \E pt \in StoredPairs : create_bid(pt[1], pt[2], DEFAULT_BASE_PRICE)

HalfPurseSale ==
    \E pt \in StoredPairs :
        finalize_player_sale(pt[1], pt[2], DEFAULT_PURSE_BALANCE \div 2)

UnsoldStored == \E player_id \in DOMAIN players : mark_player_unsold(player_id)

StatusStored ==
    \E player_id \in DOMAIN players, new_status \in AuctionStatus :
        update_auction_status(player_id, new_status)

NextStatus == FirstBid \/ HalfPurseSale \/ UnsoldStored \/ StatusStored

SpecStatus == InitBid /\ [][NextStatus]_vars

\* C7: every player whose sold_to_team_id is set has the status sold.
C7_SoldToImpliesSold ==
    \A p \in DOMAIN players :
        Get(players[p], "sold_to_team_id", None) # None
            => Get(players[p], "auction_status", None) = "sold"

(***************************************************************************)
(* Spec: the auction.  Bids, sales, unsold marks, status updates and icon  *)
(* assignments, on two teams as create_team makes them and two players as  *)
(* create_auction_player makes them.                                       *)
(***************************************************************************)
AssignStored == \E pt \in StoredPairs : assign_icon_player(pt[1], pt[2])

UnassignStored == \E player_id \in DOMAIN players : unassign_icon_player(player_id)

Init ==
    /\ teams = [t \in TeamIds |-> NewTeam(TeamName[t])]
    /\ players = [p \in {"p1", "p2"} |->
                     AuctionPlayer(p, IF p = "p1" THEN 1 ELSE 2)]
    /\ bids = <<>>
    /\ registrations = NoRegistrations
    /\ settings = NoSettings
    /\ tasks = NoTasks
    /\ resp = NoRequest

Next ==
    \/ FirstBid
    \/ HalfPurseSale
    \/ UnsoldStored
    \/ StatusStored
    \/ AssignStored
    \/ UnassignStored

Spec == Init /\ [][Next]_vars

\* The number of entries of a team's icon list.
IconCount(t) == Len(Get(teams[t], "icon_player_ids", <<>>))

\* The sum of sold_price over the players of a set that are sold to team t.
RECURSIVE SoldSum(_, _)
SoldSum(t, ps) ==
    IF ps = {} THEN 0
    ELSE LET p == CHOOSE q \in ps : TRUE
         IN  (IF Get(players[p], "sold_to_team_id", None) = t
              THEN Get(players[p], "sold_price", 0) ELSE 0)
             + SoldSum(t, ps \ {p})

\* C3: every team's purse is the default purse less 1500 for each of its icon
\* players and less the price of every player sold to it.
C3_PurseInvariant ==
    \A t \in DOMAIN teams :
        teams[t].purse_balance =
            DEFAULT_PURSE_BALANCE - ICON_PLAYER_COST * IconCount(t)
                - SoldSum(t, DOMAIN players)

(***************************************************************************)
(* SpecIcon: icon assignments.  Two teams as create_team makes them, three *)
(* players as create_auction_player makes them, no sale.                   *)
(***************************************************************************)
InitIcon ==
    /\ teams = [t \in TeamIds |-> NewTeam(TeamName[t])]
    /\ players = [p \in PlayerIds |->
                     AuctionPlayer(p, CASE p = "p1" -> 1 [] p = "p2" -> 2 [] OTHER -> 3)]
    /\ bids = <<>>
    /\ registrations = NoRegistrations
    /\ settings = NoSettings
    /\ tasks = NoTasks
    /\ resp = NoRequest

AssignIcon ==
    \E pt \in StoredPairs \cup OtherPairs : assign_icon_player(pt[1], pt[2])

UnassignIcon == \E player_id \in PlayerArgs : unassign_icon_player(player_id)

NextIcon == AssignIcon \/ UnassignIcon

SpecIcon == InitIcon /\ [][NextIcon]_vars

\* C8: with no sale, a team's purse is 8000 less 1500 for each entry of its
\* icon list (5000 with two), and the list never has more than 2 entries; an
\* assignment of a stored player to a team that holds 2 icon players fails
\* with HTTP 400 and changes no player, no team and no bid.
C8_IconCap ==
    /\ [](\A t \in DOMAIN teams :
            /\ IconCount(t) <= MAX_ICON_PLAYERS
            /\ teams[t].purse_balance =
                   DEFAULT_PURSE_BALANCE - ICON_PLAYER_COST * IconCount(t))
    /\ [][( /\ resp'.op = "assign_icon_player"
            /\ <<resp'.player_id, resp'.team_id>> \in StoredPairs
            /\ IconCount(resp'.team_id) >= 2 ) =>
              /\ resp'.exc = HTTP_400_BAD_REQUEST
              /\ UNCHANGED <<players, teams, bids>>]_vars

\* A team holds two icon players, its purse is 5000, and the assignment of a
\* third player, who is no icon player, has just been refused.
C8_Witness ==
    /\ resp.op = "assign_icon_player"
    /\ resp.exc = HTTP_400_BAD_REQUEST
    /\ <<resp.player_id, resp.team_id>> \in StoredPairs
    /\ ~players[resp.player_id].is_icon_player
    /\ IconCount(resp.team_id) = 2
    /\ teams[resp.team_id].purse_balance = 5000

\* A list without every occurrence of x.
Without(list, x) == SelectSeq(list, LAMBDA y : y # x)

\* C16: unassign_icon_player on a stored player that is no icon player fails
\* with HTTP 400 and changes nothing; on an icon player it sets is_icon_player
\* to false and icon_player_team_id to None, takes the player off the list of
\* the team that held it and sets that team's purse to 8000 - 1500 for each
\* icon player it keeps.  With no player sold, an assignment appends the
\* player to the team's list and takes 1500 from its purse, and an unassignment
\* that follows it gives the list and the purse of before the assignment back,
\* and the icon fields the player had then.
C16_UnassignIcon ==
    /\ [][(resp'.op = "unassign_icon_player" /\ resp'.player_id \in DOMAIN players) =>
             LET player_id == resp'.player_id
                 team_id == players[player_id].icon_player_team_id
             IN  IF ~players[player_id].is_icon_player
                 THEN /\ resp'.exc = HTTP_400_BAD_REQUEST
                      /\ UNCHANGED <<players, teams, bids>>
                 ELSE /\ resp'.exc = OK
                      /\ players' = [players EXCEPT ![player_id] =
                             Set(@, [is_icon_player |-> FALSE,
                                     icon_player_team_id |-> None])]
                      /\ teams'[team_id].icon_player_ids =
                             Without(teams[team_id].icon_player_ids, player_id)
                      /\ teams'[team_id].purse_balance =
                             DEFAULT_PURSE_BALANCE
                                 - ICON_PLAYER_COST * Len(teams'[team_id].icon_player_ids)
                      /\ teams'[team_id].name = teams[team_id].name
                      /\ \A t \in DOMAIN teams \ {team_id} : teams'[t] = teams[t]
                      /\ UNCHANGED bids]_vars
    /\ [][(resp'.op = "assign_icon_player" /\ resp'.exc = OK) =>
             /\ ~players[resp'.player_id].is_icon_player
             /\ players[resp'.player_id].icon_player_team_id = None
             /\ teams'[resp'.team_id].icon_player_ids =
                    Append(teams[resp'.team_id].icon_player_ids, resp'.player_id)
             /\ teams'[resp'.team_id].purse_balance =
                    teams[resp'.team_id].purse_balance - ICON_PLAYER_COST]_vars
    /\ [][(/\ resp.op = "assign_icon_player" /\ resp.exc = OK
           /\ resp'.op = "unassign_icon_player"
           /\ resp'.player_id = resp.player_id) =>
             /\ resp'.exc = OK
             /\ Append(teams'[resp.team_id].icon_player_ids, resp.player_id) =
                    teams[resp.team_id].icon_player_ids
             /\ teams'[resp.team_id].purse_balance =
                    teams[resp.team_id].purse_balance + ICON_PLAYER_COST
             /\ ~players'[resp.player_id].is_icon_player
             /\ players'[resp.player_id].icon_player_team_id = None]_vars

\* The first of a team's two icon players has just been unassigned: the team
\* keeps the second and has a purse of 6500.
C16_Witness ==
    /\ resp.op = "unassign_icon_player"
    /\ resp.exc = OK
    /\ ~players[resp.player_id].is_icon_player
    /\ \E t \in DOMAIN teams :
          /\ IconCount(t) = 1
          /\ teams[t].purse_balance = DEFAULT_PURSE_BALANCE - ICON_PLAYER_COST
          /\ \E q \in DOMAIN players :
                /\ teams[t].icon_player_ids = <<q>>
                /\ players[q].auction_order > players[resp.player_id].auction_order

(***************************************************************************)
(* SpecOrder: the auction order.  p1 and p2 made by create_auction_player  *)
(* (orders 1 and 2); p3 made by it too (order 3), or by create_player or   *)
(* approve_registration (no order, no status).  Orders are moved and       *)
(* shuffled while statuses change.                                         *)
(***************************************************************************)

\* The largest order a request asks for.
MaxOrder == 3

InitOrder ==
    /\ teams = [t \in TeamIds |-> NewTeam(TeamName[t])]
    /\ \E third \in {AuctionPlayer("p3", 3), CreatedPlayer("p3"), ApprovedPlayer("p3")} :
          players = [p \in PlayerIds |->
                        CASE p = "p1" -> AuctionPlayer("p1", 1)
                          [] p = "p2" -> AuctionPlayer("p2", 2)
                          [] OTHER -> third]
    /\ bids = <<>>
    /\ registrations = NoRegistrations
    /\ settings = NoSettings
    /\ tasks = NoTasks
    /\ resp = NoRequest

UpdateOrder ==
    \E player_id \in PlayerArgs, new_order \in 1..MaxOrder :
        update_auction_order(player_id, new_order)

Randomize == \E only_pending \in BOOLEAN : randomize_auction_order(only_pending)

SoldOrPending ==
    \E player_id \in DOMAIN players, new_status \in {"pending", "sold"} :
        update_auction_status(player_id, new_status)

NextOrder == UpdateOrder \/ Randomize \/ SoldOrPending

SpecOrder == InitOrder /\ [][NextOrder]_vars

auction_order(p) == Get(players[p], "auction_order", NoneInt)

\* C9: an accepted update_auction_order(A, N) changes nothing but auction
\* orders.  When another player holds N, A gets N, one holder B of N gets the
\* order A had, and no other player's order changes; when none holds N, only
\* A's order changes, to N.
C9_SwapOrSet ==
    [][(resp'.op = "update_auction_order" /\ resp'.exc = OK) =>
          LET A == resp'.player_id
              N == resp'.new_order
              holders == {q \in DOMAIN players \ {A} : auction_order(q) = N}
          IN  /\ UNCHANGED <<teams, bids>>
              /\ holders # {} =>
                    \E B \in holders :
                        players' = [players EXCEPT
                            ![B] = Set(@, [auction_order |-> auction_order(A)]),
                            ![A] = Set(@, [auction_order |-> N])]
              /\ holders = {} =>
                    players' = [players EXCEPT ![A] = Set(@, [auction_order |-> N])]]_vars

\* Two players have just swapped their orders, and a third player has yet
\* another order.
C9_Witness ==
    /\ resp.op = "update_auction_order"
    /\ resp.exc = OK
    /\ resp.swapped_with # None
    /\ auction_order(resp.player_id) = resp.new_order
    /\ auction_order(resp.swapped_with) \notin {NoneInt, resp.new_order}
    /\ \E q \in DOMAIN players \ {resp.player_id, resp.swapped_with} :
          auction_order(q) \notin
              {NoneInt, resp.new_order, auction_order(resp.swapped_with)}

\* The pending players.
Pending == {p \in DOMAIN players : Get(players[p], "auction_status", None) = "pending"}

\* C10: randomize(onlyPending = true) over K pending players leaves them the
\* orders 1..K, each once, and changes no field of any other player, no team
\* and no bid.
C10_RandomizePending ==
    [][(resp'.op = "randomize_auction_order" /\ resp'.only_pending) =>
          /\ {players'[p].auction_order : p \in Pending} = 1..Cardinality(Pending)
          /\ \A p, q \in Pending :
                p # q => players'[p].auction_order # players'[q].auction_order
          /\ \A p \in (DOMAIN players) \ Pending : players'[p] = players[p]
          /\ DOMAIN players' = DOMAIN players
          /\ UNCHANGED <<teams, bids>>]_vars

\* Two pending players have just been given the orders 1 and 2, while a
\* player that is not pending keeps an order of its own.
C10_Witness ==
    /\ resp.op = "randomize_auction_order"
    /\ resp.only_pending
    /\ resp.randomized = 2
    /\ \E p \in DOMAIN players :
          /\ Get(players[p], "auction_status", None) = "sold"
          /\ auction_order(p) = 3

(***************************************************************************)
(* SpecRegistration: registrations are made, approved, rejected and        *)
(* updated, from a store without registrations and players.                *)
(***************************************************************************)

Phones == {"9000000001", "9000000002"}

\* The payment references of the requests: A, B, A followed by a blank, and a
\* blank.
PaymentReferences == {<<"A">>, <<"B">>, <<"A", " ">>, <<" ">>}

\* The bodies of the update requests: schemas.RegistrationUpdate.
RegistrationUpdates ==
    [status : RegistrationStatus \cup {None}, rejection_reason : {None}]

RegistrationArgs == DOMAIN registrations \cup {MissingId, MalformedId}

InitRegistration ==
    /\ players = <<>>
    /\ teams = [t \in TeamIds |-> NewTeam(TeamName[t])]
    /\ bids = <<>>
    /\ registrations = NoRegistrations
    /\ settings = NoSettings
    /\ tasks = NoTasks
    /\ resp = NoRequest

CreateRegistration == \E phone \in Phones : create_registration("Asha", phone)

ApproveRegistration ==
    \E registration_id \in RegistrationArgs, payment_reference \in PaymentReferences :
        approve_registration(registration_id, payment_reference)

RejectRegistration ==
    \E registration_id \in RegistrationArgs : reject_registration(registration_id, "late")

UpdateRegistration ==
    \E registration_id \in RegistrationArgs, registration_data \in RegistrationUpdates :
        update_registration(registration_id, registration_data)

NextRegistration ==
    \/ CreateRegistration
    \/ ApproveRegistration
    \/ RejectRegistration
    \/ UpdateRegistration

SpecRegistration == InitRegistration /\ [][NextRegistration]_vars

\* The registrations that carry a payment reference.
Carriers(ref) ==
    {r \in DOMAIN registrations :
        /\ "payment_reference" \in DOMAIN registrations[r]
        /\ registrations[r].payment_reference = ref}

\* A step that served an approve_registration request.
ApproveStep == resp'.op = "approve_registration"

\* C11: approve_registration(r, ref) fails with HTTP 400 and changes no
\* registration and no player when an approved registration carries ref; it
\* is accepted when r is a stored registration and the registrations that
\* carry ref are all rejected.
C11_PaymentReferenceOnce ==
    [][ApproveStep =>
          LET ref == strip(resp'.payment_reference)
          IN  /\ (\E r \in Carriers(ref) : registrations[r].status = "approved")
                    => /\ resp'.exc = HTTP_400_BAD_REQUEST
                       /\ UNCHANGED <<registrations, players>>
              /\ (/\ resp'.registration_id \in DOMAIN registrations
                  /\ Carriers(ref) # {}
                  /\ \A r \in Carriers(ref) : registrations[r].status = "rejected")
                    => resp'.exc = OK]_vars

\* C12: no two approved registrations carry the same payment reference.
C12_ApprovedReferencesDiffer ==
    \A r1, r2 \in DOMAIN registrations :
        (/\ r1 # r2
         /\ registrations[r1].status = "approved"
         /\ registrations[r2].status = "approved"
         /\ "payment_reference" \in DOMAIN registrations[r1]
         /\ "payment_reference" \in DOMAIN registrations[r2])
            => registrations[r1].payment_reference # registrations[r2].payment_reference

\* C19: a registration is made pending, and the status of an approved or
\* rejected registration never changes again.
C19_TerminalStatus ==
    [][/\ \A r \in DOMAIN registrations' \ DOMAIN registrations :
             registrations'[r].status = "pending"
       /\ \A r \in DOMAIN registrations :
             registrations[r].status \in {"approved", "rejected"}
                => registrations'[r].status = registrations[r].status]_vars

(***************************************************************************)
(* SpecNotFound: bids, sales, unsold marks, status updates and icon        *)
(* assignments that name stored documents, ids that no document carries    *)
(* and malformed ids.                                                      *)
(***************************************************************************)

\* Two teams as create_team makes them and one player as create_auction_player
\* makes it.
InitNotFound ==
    /\ teams = [t \in TeamIds |-> NewTeam(TeamName[t])]
    /\ players = [p \in {"p1"} |-> AuctionPlayer(p, 1)]
    /\ bids = <<>>
    /\ registrations = NoRegistrations
    /\ settings = NoSettings
    /\ tasks = NoTasks
    /\ resp = NoRequest

BidAny ==
    /\ Len(bids) < MaxBids
    /\ \E pt \in StoredPairs \cup OtherPairs :
          create_bid(pt[1], pt[2], DEFAULT_BASE_PRICE)

SaleAny ==
    \E pt \in StoredPairs \cup OtherPairs :
        finalize_player_sale(pt[1], pt[2], DEFAULT_PURSE_BALANCE \div 2)

StatusAny ==
    \E player_id \in PlayerArgs, new_status \in {"pending", "live"} :
        update_auction_status(player_id, new_status)

NextNotFound == BidAny \/ SaleAny \/ MarkUnsold \/ StatusAny \/ AssignIcon

SpecNotFound == InitNotFound /\ [][NextNotFound]_vars

\* C13: a request that fails because a document does not exist is answered
\* with status 404, and one that fails a precondition with status 400.
C13_NotFoundIs404 ==
    /\ resp.exc = HTTP_404_NOT_FOUND => status_code(resp) = 404
    /\ resp.exc = HTTP_400_BAD_REQUEST => status_code(resp) = 400

\* The ids a request names: all well formed, and one of them of no document.
NamesMissing(request) ==
    /\ validate_object_id(request.player_id)
    /\ "team_id" \in DOMAIN request => validate_object_id(request.team_id)
    /\ \/ request.player_id \notin DOMAIN players
       \/ "team_id" \in DOMAIN request /\ request.team_id \notin DOMAIN teams

\* C14: create_bid, finalize_player_sale, mark_player_unsold and
\* assign_icon_player with well-formed ids, one of them of no document, fail
\* with NotFound and leave players, teams and bids as they were.
C14_NotFoundChangesNothing ==
    [][(/\ resp'.op \in {"create_bid", "finalize_player_sale",
                         "mark_player_unsold", "assign_icon_player"}
        /\ NamesMissing(resp')) =>
          /\ resp'.exc = HTTP_404_NOT_FOUND
          /\ UNCHANGED <<players, teams, bids>>]_vars

(***************************************************************************)
(* SpecIconSale: icon assignments and unassignments next to bids, sales    *)
(* and status updates, on stored players and teams.                        *)
(***************************************************************************)

NextIconSale ==
    \/ AssignStored
    \/ UnassignStored
    \/ FirstBid
    \/ HalfPurseSale
    \/ StatusStored

SpecIconSale == Init /\ [][NextIconSale]_vars

\* C17: no icon player is sold: no player has is_icon_player true together
\* with the status sold and a sold_to_team_id.
C17_IconNeverSold ==
    \A p \in DOMAIN players :
        ~(/\ Get(players[p], "is_icon_player", FALSE)
          /\ Get(players[p], "auction_status", None) = "sold"
          /\ Get(players[p], "sold_to_team_id", None) # None)

(***************************************************************************)
(* SpecLifecycle: the three operations of the auction floor, on stored     *)
(* players and teams: the opening bid, sales and unsold marks.             *)
(***************************************************************************)

NextLifecycle == FirstBid \/ HalfPurseSale \/ UnsoldStored

SpecLifecycle == Init /\ [][NextLifecycle]_vars

\* The status of a player, None when its document holds none.
auction_status(p) == Get(players[p], "auction_status", None)

\* C18: create_bid changes a status only from pending to live, and
\* finalize_player_sale and mark_player_unsold change it only from live, to
\* sold and to unsold: no sold or unsold player becomes live or pending again.
C18_StatusMovesForward ==
    [][\A p \in DOMAIN players :
          auction_status(p)' # auction_status(p) =>
              \/ /\ resp'.op = "create_bid"
                 /\ auction_status(p) = "pending"
                 /\ auction_status(p)' = "live"
              \/ /\ resp'.op = "finalize_player_sale"
                 /\ auction_status(p) = "live"
                 /\ auction_status(p)' = "sold"
              \/ /\ resp'.op = "mark_player_unsold"
                 /\ auction_status(p) = "live"
                 /\ auction_status(p)' = "unsold"]_vars

(***************************************************************************)
(* SpecPool: the auction pool is filled, initialized, shuffled and         *)
(* reordered.  The store starts empty, or with one player made by          *)
(* create_player, without auction fields or with the status pending and no *)
(* order.                                                                  *)
(***************************************************************************)

\* The bodies of the create requests: a name, no base_price, and auction_order
\* and auction_status given or left out.
PlayerCreates ==
    [name : {"Ravi"}, base_price : {NoneInt},
     auction_order : {NoneInt, 1}, auction_status : {None, "sold"}]

InitPool ==
    /\ players \in {<<>>,
                    [p \in {"p1"} |-> CreatedPlayer("p1")],
                    [p \in {"p1"} |->
                        Set(CreatedPlayer("p1"), [auction_status |-> "pending"])]}
    /\ teams = [t \in TeamIds |-> NewTeam(TeamName[t])]
    /\ bids = <<>>
    /\ registrations = NoRegistrations
    /\ settings = NoSettings
    /\ tasks = NoTasks
    /\ resp = NoRequest

CreateAuctionPlayer ==
    \E player_data \in PlayerCreates : create_auction_player(player_data)

InitializeAll == initialize_auction_for_all_players(DEFAULT_BASE_PRICE)

InitializeOrder == initialize_auction_order

NextPool ==
    \/ CreateAuctionPlayer
    \/ InitializeAll
    \/ InitializeOrder
    \/ Randomize
    \/ UpdateOrder

SpecPool == InitPool /\ [][NextPool]_vars

\* C20: no two players that have an auction status have the same auction
\* order.
C20_OrdersDiffer ==
    \A p, q \in DOMAIN players :
        (/\ p # q
         /\ auction_status(p) # None
         /\ auction_status(q) # None
         /\ auction_order(p) # NoneInt)
            => auction_order(p) # auction_order(q)

(***************************************************************************)
(* Requests whose awaits interleave.  The server is one event loop: a      *)
(* handler runs without interruption from one await to the next, and every *)
(* await of a store operation lets another request run.  A request between *)
(* two awaits is a task: tasks[task] holds its position pc and its local   *)
(* variables.                                                              *)
(***************************************************************************)
Tasks == {"a", "b"}

\* The request moves to its next await with new local variables.
Await(task, frame) ==
    /\ tasks' = IF task \in DOMAIN tasks
                THEN [tasks EXCEPT ![task] = Set(@, frame)]
                ELSE tasks @@ (task :> frame)
    /\ UNCHANGED resp

\* The request ends: the controller returned (exc = OK) or raised.
Done(task, request, exc) ==
    /\ tasks' = [tasks EXCEPT ![task] = Set(@, [pc |-> exc])]
    /\ resp' = Set(request, [exc |-> exc])

\* finalize_player_sale up to its first write: the id check, the read of the
\* team and the balance check on the balance read.
finalize_find_team(task, player_id, team_id, sale_price) ==
    LET request == [op |-> "finalize_player_sale", player_id |-> player_id,
                    team_id |-> team_id, sale_price |-> sale_price]
    IN  /\ task \notin DOMAIN tasks
        /\ IF ~validate_object_id(player_id) \/ ~validate_object_id(team_id)
           THEN Raise(request, HTTP_400_BAD_REQUEST)
           ELSE IF team_id \notin DOMAIN teams
           THEN Raise(request, HTTP_404_NOT_FOUND)
           ELSE LET current_balance ==
                        Get(teams[team_id], "purse_balance", DEFAULT_PURSE_BALANCE)
                IN  IF ExceedsBalance(sale_price, current_balance)
                    THEN Raise(request, HTTP_400_BAD_REQUEST)
                    ELSE /\ Await(task, Set(request,
                                [pc |-> "update_player",
                                 current_balance |-> current_balance]))
                         /\ UNCHANGED <<players, teams, bids, registrations,
                                        settings>>

\* The local variables a task holds besides the parameters of its request.
Locals ==
    {"pc", "current_balance", "found", "current_max_order", "initialized_count",
     "base_price", "team_name", "icon_player_ids", "icon_player_team_id"}

\* The request a task is serving, as resp records it.
RequestOf(task) ==
    [key \in DOMAIN tasks[task] \ Locals |-> tasks[task][key]]

\* finalize_player_sale's write of the player: players.update_one
finalize_update_player(task) ==
    /\ task \in DOMAIN tasks
    /\ tasks[task].op = "finalize_player_sale"
    /\ tasks[task].pc = "update_player"
    /\ LET call == tasks[task]
       IN  IF call.player_id \notin DOMAIN players
           THEN /\ Done(task, RequestOf(task), HTTP_404_NOT_FOUND)
                /\ UNCHANGED <<players, teams, bids, registrations, settings>>
           ELSE /\ players' = [players EXCEPT ![call.player_id] =
                                  Set(@, [auction_status |-> "sold",
                                          sold_to_team_id |-> call.team_id,
                                          sold_price |-> call.sale_price])]
                /\ Await(task, [pc |-> "update_team"])
                /\ UNCHANGED <<teams, bids, registrations, settings>>

\* finalize_player_sale's write of the team: the balance it read before its
\* first await, less the sale price.
finalize_update_team_Decrement(task) ==
    /\ task \in DOMAIN tasks
    /\ tasks[task].op = "finalize_player_sale"
    /\ tasks[task].pc = "update_team"
    /\ LET call == tasks[task]
       IN  /\ teams' = IF call.team_id \in DOMAIN teams
                       THEN [teams EXCEPT ![call.team_id] =
                                Set(@, [purse_balance |->
                                    new_balance(@.purse_balance, call.sale_price)])]
                       ELSE teams
           /\ Await(task, [pc |-> "find_player"])
           /\ UNCHANGED <<players, bids, registrations, settings>>
finalize_update_team(task) ==
    /\ task \in DOMAIN tasks
    /\ tasks[task].op = "finalize_player_sale"
    /\ tasks[task].pc = "update_team"
    /\ LET call == tasks[task]
       IN  /\ teams' = IF call.team_id \in DOMAIN teams
                       THEN [teams EXCEPT ![call.team_id] =
                                Set(@, [purse_balance |->
                                    new_balance(call.current_balance,
                                                call.sale_price)])]
                       ELSE teams
           /\ Await(task, [pc |-> "find_player"])
           /\ UNCHANGED <<players, bids, registrations, settings>>

\* finalize_player_sale's last read, of the player it returns.
finalize_find_player(task) ==
    /\ task \in DOMAIN tasks
    /\ tasks[task].op = "finalize_player_sale"
    /\ tasks[task].pc = "find_player"
    /\ Done(task, RequestOf(task), OK)
    /\ UNCHANGED <<players, teams, bids, registrations, settings>>

(***************************************************************************)
(* SpecSaleRace: two sale requests, each buying for a stored team one of   *)
(* the two stored players, at a price the full purse covers.               *)
(***************************************************************************)
RacePrices == {1000, 5000}

SaleBegins ==
    \E task \in Tasks, pt \in StoredPairs, sale_price \in RacePrices :
        finalize_find_team(task, pt[1], pt[2], sale_price)

SaleWritesPlayer == \E task \in Tasks : finalize_update_player(task)

SaleWritesTeam == \E task \in Tasks : finalize_update_team(task)

SaleReturns == \E task \in Tasks : finalize_find_player(task)

NextSaleRace ==
    \/ SaleBegins
    \/ SaleWritesPlayer
    \/ SaleWritesTeam
    \/ SaleReturns

SpecSaleRace == Init /\ [][NextSaleRace]_vars

\* Both requests were served, for the same team and different players, and both
\* read the team's balance before either wrote it.
BothSold ==
    /\ DOMAIN tasks = Tasks
    /\ \A task \in Tasks : tasks[task].pc = OK
    /\ tasks["a"].team_id = tasks["b"].team_id
    /\ tasks["a"].player_id # tasks["b"].player_id
    /\ tasks["a"].current_balance = tasks["b"].current_balance

\* C21: two sales to one team that interleave so that both read the balance
\* before either writes it both succeed, and the team's balance is the balance
\* read less one of the two prices, not less both: one debit is lost.
C21_LostUpdate ==
    BothSold =>
        LET team == teams[tasks["a"].team_id]
            initial == tasks["a"].current_balance
        IN  /\ team.purse_balance \in {initial - tasks["a"].sale_price,
                                       initial - tasks["b"].sale_price}
            /\ team.purse_balance #
                   initial - tasks["a"].sale_price - tasks["b"].sale_price

\* Both sales were served at 5000 out of one purse of 8000, which holds 3000.
C21_Witness ==
    /\ BothSold
    /\ tasks["a"].sale_price = 5000
    /\ tasks["b"].sale_price = 5000
    /\ teams[tasks["a"].team_id].purse_balance = 3000
    /\ \A task \in Tasks :
           players[tasks[task].player_id].sold_to_team_id = tasks["a"].team_id

(***************************************************************************)
(* initialize_auction_for_all_players, await by await                      *)
(***************************************************************************)

\* The handler's first read: the players without auction status, in the order
\* find returns them.  With none to initialise the handler returns at once.
initialize_find(task, base_price) ==
    LET request == [op |-> "initialize_auction_for_all_players",
                    base_price |-> base_price]
    IN  /\ task \notin DOMAIN tasks
        /\ UNCHANGED <<players, teams, bids, registrations>>
        /\ IF players_not_in_auction = {}
           THEN Return(Set(request, [initialized |-> 0]))
           ELSE /\ \E found \in Shuffles(players_not_in_auction) :
                       Await(task, Set(request,
                           [pc |-> "find_max", found |-> found,
                            current_max_order |-> 0, initialized_count |-> 0]))
                /\ UNCHANGED settings

\* The handler's second read: the largest auction order in the store.
initialize_find_max(task) ==
    /\ task \in DOMAIN tasks
    /\ tasks[task].pc = "find_max"
    /\ Await(task, [pc |-> "update_one", current_max_order |-> max_order])
    /\ UNCHANGED <<players, teams, bids, registrations, settings>>

\* current_max_order += 1
next_max_order_Same(current_max_order) == current_max_order
next_max_order(current_max_order) == current_max_order + 1

\* One turn of the loop: the next player found is written with the next order
\* counted from the maximum read.  After the last turn the handler returns.
initialize_update_one(task) ==
    /\ task \in DOMAIN tasks
    /\ tasks[task].pc = "update_one"
    /\ LET call == tasks[task]
           player == call.found[call.initialized_count + 1]
           current_max_order == next_max_order(call.current_max_order)
           initialized_count == call.initialized_count + 1
       IN  /\ players' = IF player \in DOMAIN players
                         THEN [players EXCEPT ![player] =
                                  Set(@, [base_price |-> call.base_price,
                                          auction_status |-> "pending",
                                          is_icon_player |-> FALSE,
                                          icon_player_team_id |-> None,
                                          auction_order |-> current_max_order,
                                          sold_price |-> NoneInt,
                                          sold_to_team_id |-> None])]
                         ELSE players
           /\ IF initialized_count < Len(call.found)
              THEN Await(task, [current_max_order |-> current_max_order,
                                initialized_count |-> initialized_count])
              ELSE /\ tasks' = [tasks EXCEPT ![task] =
                                  Set(@, [pc |-> OK,
                                          current_max_order |-> current_max_order,
                                          initialized_count |-> initialized_count])]
                   /\ resp' = Set(RequestOf(task),
                                  [exc |-> OK, initialized |-> initialized_count])
           /\ UNCHANGED <<teams, bids, registrations, settings>>

(***************************************************************************)
(* SpecInitializeRace: two initialize-all requests on a store that holds   *)
(* one player of the auction pool, with order 1, and two players made by   *)
(* create_player.                                                          *)
(***************************************************************************)
InitInitializeRace ==
    /\ players = [p \in PlayerIds |->
                     IF p = "p1" THEN AuctionPlayer(p, 1) ELSE CreatedPlayer(p)]
    /\ teams = [t \in TeamIds |-> NewTeam(TeamName[t])]
    /\ bids = <<>>
    /\ registrations = NoRegistrations
    /\ settings = NoSettings
    /\ tasks = NoTasks
    /\ resp = NoRequest

InitializeBegins ==
    \E task \in Tasks : initialize_find(task, DEFAULT_BASE_PRICE)

InitializeReadsMax == \E task \in Tasks : initialize_find_max(task)

InitializeWrites == \E task \in Tasks : initialize_update_one(task)

NextInitializeRace ==
    \/ InitializeBegins
    \/ InitializeReadsMax
    \/ InitializeWrites

SpecInitializeRace == InitInitializeRace /\ [][NextInitializeRace]_vars

\* Two players of the pool hold the same auction order.
SameOrder ==
    \E p, q \in DOMAIN players :
        /\ p # q
        /\ auction_order(p) # NoneInt
        /\ auction_order(p) = auction_order(q)

\* C22: a call that ran alone has given the k players it found the orders
\* max+1 .. max+k, one each; two players hold the same order only when two
\* calls overlapped, each having found players to initialise.
C22_DuplicateOrders ==
    /\ \A task \in DOMAIN tasks :
           (DOMAIN tasks = {task} /\ tasks[task].pc = OK) =>
               LET call == tasks[task]
                   k == Len(call.found)
                   max == call.current_max_order - k
               IN  /\ {auction_order(call.found[i]) : i \in 1..k}
                          = (max + 1)..(max + k)
                   /\ \A i \in 1..k : auction_order(call.found[i]) = max + i
                   /\ ~SameOrder
    /\ SameOrder =>
           /\ DOMAIN tasks = Tasks
           /\ \A task \in Tasks : Len(tasks[task].found) > 0

\* Both calls found the two players in the same order and both have returned;
\* the two players hold the same auction order.
C22_Witness ==
    /\ DOMAIN tasks = Tasks
    /\ \A task \in Tasks : tasks[task].pc = OK
    /\ tasks["a"].found = tasks["b"].found
    /\ Len(tasks["a"].found) = 2
    /\ auction_order("p2") = auction_order("p3")

(***************************************************************************)
(* SettingsController                                                      *)
(***************************************************************************)
SETTINGS_KEY == "app_settings"

\* The positions in settings of the documents find({"key": SETTINGS_KEY})
\* matches; find_one and update_one take the first.
Matching == {i \in 1..Len(settings) : settings[i].key = SETTINGS_KEY}

First(positions) == CHOOSE i \in positions : \A j \in positions : i <= j

default_settings == [key |-> SETTINGS_KEY, registration_open |-> TRUE]

\* get_settings up to its find_one: a document found is answered from; with
\* none found the handler goes on to insert the default.
get_settings_find_one(task) ==
    LET request == [op |-> "get_settings"]
    IN  /\ task \notin DOMAIN tasks
        /\ UNCHANGED <<players, teams, bids, registrations>>
        /\ IF Matching # {}
           THEN /\ resp' = Set(request,
                       [exc |-> OK,
                        registration_open |->
                            Get(settings[First(Matching)], "registration_open", TRUE)])
                /\ UNCHANGED <<settings, tasks>>
           ELSE /\ Await(task, Set(request, [pc |-> "insert_one"]))
                /\ UNCHANGED settings

\* get_settings after its find_one found nothing: insert_one(default_settings)
get_settings_insert_one(task) ==
    /\ task \in DOMAIN tasks
    /\ tasks[task].pc = "insert_one"
    /\ settings' = Append(settings, default_settings)
    /\ Done(task, Set(RequestOf(task), [registration_open |-> TRUE]), OK)
    /\ UNCHANGED <<players, teams, bids, registrations>>

\* update_registration_status is one update_one with upsert=True.
update_registration_status(is_open) ==
    LET request == [op |-> "update_registration_status", is_open |-> is_open]
    IN  /\ settings' =
               IF Matching # {}
               THEN [settings EXCEPT ![First(Matching)] =
                        Set(@, [registration_open |-> is_open])]
               ELSE Append(settings,
                           [key |-> SETTINGS_KEY, registration_open |-> is_open])
        /\ resp' = Set(request, [exc |-> OK, registration_open |-> is_open])
        /\ UNCHANGED <<players, teams, bids, registrations, tasks>>

(***************************************************************************)
(* SpecSettings: reads and updates of the settings on an empty store.      *)
(***************************************************************************)
\* The get_settings requests that can be between their two awaits at once.
Readers == {"a", "b", "c"}

GetSettingsBegins == \E task \in Readers : get_settings_find_one(task)

GetSettingsInserts == \E task \in Readers : get_settings_insert_one(task)

UpdateRegistrationStatus == \E is_open \in BOOLEAN : update_registration_status(is_open)

NextSettings ==
    \/ GetSettingsBegins
    \/ GetSettingsInserts
    \/ UpdateRegistrationStatus

SpecSettings == Init /\ [][NextSettings]_vars

\* A get_settings request is answered in this step.
GetSettingsStep == resp' # resp /\ resp'.op = "get_settings"

\* C23: the store holds at most one settings document with the constant key;
\* a get_settings that is answered on a store without one has created it with
\* registration_open true; and what get_settings answers is the value the
\* stored document holds, the one update_registration_status wrote last.
C23_SettingsSingleton ==
    /\ [](Cardinality(Matching) <= 1)
    /\ [][GetSettingsStep =>
              /\ Matching' # {}
              /\ Matching = {} =>
                     settings'[First(Matching')].registration_open = TRUE
              /\ resp'.registration_open =
                     settings'[First(Matching')].registration_open]_vars

(***************************************************************************)
(* Reopening a player.  The route POST /auction/players/{player_id}/reopen *)
(* calls AuctionController.reopen_player; the class defines no attribute   *)
(* of that name, so the call raises AttributeError before any store access *)
(* and the route answers the error.                                        *)
(***************************************************************************)
AttributeError == "AttributeError"

reopen_player(player_id) ==
    Raise([op |-> "reopen_player", player_id |-> player_id], AttributeError)

ReopenStored == \E player_id \in DOMAIN players : reopen_player(player_id)

NextReopen ==
    \/ FirstBid
    \/ HalfPurseSale
    \/ ReopenStored

SpecReopen == Init /\ [][NextReopen]_vars

\* The bids that are not on a player, in their order.
RECURSIVE BidsNotOn(_, _)
BidsNotOn(list, player_id) ==
    IF list = <<>> THEN <<>>
    ELSE IF Head(list).player_id = player_id
    THEN BidsNotOn(Tail(list), player_id)
    ELSE <<Head(list)>> \o BidsNotOn(Tail(list), player_id)

\* C24: reopening a sold player succeeds, deletes the player's bids, gives the
\* buying team the sold price back and clears the player's sold price and
\* buyer.
C24_ReopenSold ==
    [][(/\ resp' # resp
        /\ resp'.op = "reopen_player"
        /\ auction_status(resp'.player_id) = "sold") =>
           LET p == resp'.player_id
               buyer == players[p].sold_to_team_id
           IN  /\ status_code(resp') = 200
               /\ bids' = BidsNotOn(bids, p)
               /\ teams'[buyer].purse_balance =
                      teams[buyer].purse_balance + players[p].sold_price
               /\ players'[p].sold_price = NoneInt
               /\ players'[p].sold_to_team_id = None]_vars

(***************************************************************************)
(* PlayerController, TeamController and the reads and deletes of           *)
(* RegistrationController.  A create or update request gives the identity  *)
(* fields name, email and phone (players) or name (teams); a field an       *)
(* update leaves out is None.                                              *)
(***************************************************************************)

\* find_one({field: value}) or, with an id to leave out,
\* find_one({field: value, "_id": {"$ne": id}}) finds a document.
Existing(collection, field, value, except) ==
    \E id \in DOMAIN collection \ {except} :
        Get(collection[id], field, None) = value

\* A collection without the document delete_one deleted.
Deleted(collection, id) == [i \in DOMAIN collection \ {id} |-> collection[i]]

create_player(player_data) ==
    LET request == [op |-> "create_player", player_data |-> player_data]
    IN  IF player_data.email # None /\ Existing(players, "email", player_data.email, None)
        THEN Raise(request, HTTP_400_BAD_REQUEST)
        ELSE IF Existing(players, "phone", player_data.phone, None)
        THEN Raise(request, HTTP_400_BAD_REQUEST)
        ELSE \E inserted_id \in PlayerIds \ DOMAIN players :
                 /\ players' = players @@
                        (inserted_id :> Set(CreatedPlayer(player_data.name),
                                            [email |-> player_data.email,
                                             phone |-> player_data.phone]))
                 /\ UNCHANGED <<teams, bids, registrations>>
                 /\ Return(Set(request, [inserted_id |-> inserted_id]))

get_player(player_id) ==
    LET request == [op |-> "get_player", player_id |-> player_id]
    IN  IF ~validate_object_id(player_id)
        THEN Raise(request, HTTP_400_BAD_REQUEST)
        ELSE IF player_id \notin DOMAIN players
        THEN Raise(request, HTTP_404_NOT_FOUND)
        ELSE /\ UNCHANGED <<players, teams, bids, registrations>>
             /\ Return(request)

\* update_player checks the email against the other players and leaves the
\* phone to the unique index of the collection: update_one raises when it
\* would give the player a phone another player has, and writes nothing.
update_player_Unindexed(player_id, player_data) ==
    LET request == [op |-> "update_player", player_id |-> player_id,
                    player_data |-> player_data]
    IN  IF ~validate_object_id(player_id)
        THEN Raise(request, HTTP_400_BAD_REQUEST)
        ELSE IF /\ player_data.email # None
                /\ Existing(players, "email", player_data.email, player_id)
        THEN Raise(request, HTTP_400_BAD_REQUEST)
        ELSE IF player_id \notin DOMAIN players
        THEN Raise(request, HTTP_404_NOT_FOUND)
        ELSE /\ players' = [players EXCEPT ![player_id] =
                               Set(@, update_data(player_data))]
             /\ UNCHANGED <<teams, bids, registrations>>
             /\ Return(request)
update_player(player_id, player_data) ==
    LET request == [op |-> "update_player", player_id |-> player_id,
                    player_data |-> player_data]
    IN  IF ~validate_object_id(player_id)
        THEN Raise(request, HTTP_400_BAD_REQUEST)
        ELSE IF /\ player_data.email # None
                /\ Existing(players, "email", player_data.email, player_id)
        THEN Raise(request, HTTP_400_BAD_REQUEST)
        ELSE IF player_id \notin DOMAIN players
        THEN Raise(request, HTTP_404_NOT_FOUND)
        ELSE IF /\ player_data.phone # None
                /\ Existing(players, "phone", player_data.phone, player_id)
        THEN Raise(request, DuplicateKeyError)
        ELSE /\ players' = [players EXCEPT ![player_id] =
                               Set(@, update_data(player_data))]
             /\ UNCHANGED <<teams, bids, registrations>>
             /\ Return(request)

delete_player(player_id) ==
    LET request == [op |-> "delete_player", player_id |-> player_id]
    IN  IF ~validate_object_id(player_id)
        THEN Raise(request, HTTP_400_BAD_REQUEST)
        ELSE IF player_id \notin DOMAIN players
        THEN Raise(request, HTTP_404_NOT_FOUND)
        ELSE /\ players' = Deleted(players, player_id)
             /\ UNCHANGED <<teams, bids, registrations>>
             /\ Return(request)

create_team(team_data) ==
    LET request == [op |-> "create_team", team_data |-> team_data]
    IN  IF Existing(teams, "name", team_data.name, None)
        THEN Raise(request, HTTP_400_BAD_REQUEST)
        ELSE \E inserted_id \in TeamIds \ DOMAIN teams :
                 /\ teams' = teams @@ (inserted_id :> NewTeam(team_data.name))
                 /\ UNCHANGED <<players, bids, registrations>>
                 /\ Return(Set(request, [inserted_id |-> inserted_id]))

get_team(team_id) ==
    LET request == [op |-> "get_team", team_id |-> team_id]
    IN  IF ~validate_object_id(team_id)
        THEN Raise(request, HTTP_400_BAD_REQUEST)
        ELSE IF team_id \notin DOMAIN teams
        THEN Raise(request, HTTP_404_NOT_FOUND)
        ELSE /\ UNCHANGED <<players, teams, bids, registrations>>
             /\ Return(request)

update_team_Denormalized(team_id, team_data) ==
    LET request == [op |-> "update_team", team_id |-> team_id,
                    team_data |-> team_data]
    IN  IF ~validate_object_id(team_id)
        THEN Raise(request, HTTP_400_BAD_REQUEST)
        ELSE IF /\ team_data.name # None
                /\ Existing(teams, "name", team_data.name, team_id)
        THEN Raise(request, HTTP_400_BAD_REQUEST)
        ELSE IF team_id \notin DOMAIN teams
        THEN Raise(request, HTTP_404_NOT_FOUND)
        ELSE /\ teams' = [teams EXCEPT ![team_id] = Set(@, update_data(team_data))]
             /\ bids' = [i \in 1..Len(bids) |->
                            IF bids[i].team_id = team_id
                            THEN Set(bids[i], [team_name |-> team_data.name])
                            ELSE bids[i]]
             /\ UNCHANGED <<players, registrations>>
             /\ Return(request)
update_team(team_id, team_data) ==
    LET request == [op |-> "update_team", team_id |-> team_id,
                    team_data |-> team_data]
    IN  IF ~validate_object_id(team_id)
        THEN Raise(request, HTTP_400_BAD_REQUEST)
        ELSE IF /\ team_data.name # None
                /\ Existing(teams, "name", team_data.name, team_id)
        THEN Raise(request, HTTP_400_BAD_REQUEST)
        ELSE IF team_id \notin DOMAIN teams
        THEN Raise(request, HTTP_404_NOT_FOUND)
        ELSE /\ teams' = [teams EXCEPT ![team_id] = Set(@, update_data(team_data))]
             /\ UNCHANGED <<players, bids, registrations>>
             /\ Return(request)

delete_team(team_id) ==
    LET request == [op |-> "delete_team", team_id |-> team_id]
    IN  IF ~validate_object_id(team_id)
        THEN Raise(request, HTTP_400_BAD_REQUEST)
        ELSE IF team_id \notin DOMAIN teams
        THEN Raise(request, HTTP_404_NOT_FOUND)
        ELSE /\ teams' = Deleted(teams, team_id)
             /\ UNCHANGED <<players, bids, registrations>>
             /\ Return(request)

get_registration(registration_id) ==
    LET request == [op |-> "get_registration", registration_id |-> registration_id]
    IN  IF ~validate_object_id(registration_id)
        THEN Raise(request, HTTP_400_BAD_REQUEST)
        ELSE IF registration_id \notin DOMAIN registrations
        THEN Raise(request, HTTP_404_NOT_FOUND)
        ELSE /\ UNCHANGED <<players, teams, bids, registrations>>
             /\ Return(request)

delete_registration(registration_id) ==
    LET request == [op |-> "delete_registration", registration_id |-> registration_id]
    IN  IF ~validate_object_id(registration_id)
        THEN Raise(request, HTTP_400_BAD_REQUEST)
        ELSE IF registration_id \notin DOMAIN registrations
        THEN Raise(request, HTTP_404_NOT_FOUND)
        ELSE /\ registrations' = Deleted(registrations, registration_id)
             /\ UNCHANGED <<players, teams, bids>>
             /\ Return(request)

(***************************************************************************)
(* SpecMalformed: every operation that takes the id of a record, asked for *)
(* a stored record, for an id no record has, and for a string that is not  *)
(* an id.  The store holds one player of the auction pool and one team.    *)
(***************************************************************************)
TeamArgs == (DOMAIN teams) \cup {MissingId, MalformedId}

\* The body of the update requests on players and on teams: a new name.
Renamed == [name |-> "Gamma", email |-> None, phone |-> None]

BidOnce ==
    /\ bids = <<>>
    /\ \E pt \in StoredPairs \cup OtherPairs :
          create_bid(pt[1], pt[2], DEFAULT_BASE_PRICE)

OrderAny ==
    \E player_id \in PlayerArgs : update_auction_order(player_id, 1)

GetPlayer == \E player_id \in PlayerArgs : get_player(player_id)

UpdatePlayer == \E player_id \in PlayerArgs : update_player(player_id, Renamed)

DeletePlayer == \E player_id \in PlayerArgs : delete_player(player_id)

GetTeam == \E team_id \in TeamArgs : get_team(team_id)

UpdateTeam == \E team_id \in TeamArgs : update_team(team_id, [name |-> "Gamma"])

DeleteTeam == \E team_id \in TeamArgs : delete_team(team_id)

GetRegistration ==
    \E registration_id \in RegistrationArgs : get_registration(registration_id)

DeleteRegistration ==
    \E registration_id \in RegistrationArgs : delete_registration(registration_id)

NextMalformed ==
    \/ BidOnce
    \/ SaleAny
    \/ MarkUnsold
    \/ StatusAny
    \/ AssignIcon
    \/ UnassignIcon
    \/ OrderAny
    \/ ApproveRegistration
    \/ RejectRegistration
    \/ UpdateRegistration
    \/ GetRegistration
    \/ DeleteRegistration
    \/ GetPlayer
    \/ UpdatePlayer
    \/ DeletePlayer
    \/ GetTeam
    \/ UpdateTeam
    \/ DeleteTeam

InitMalformed ==
    /\ teams = [t \in {"t1"} |-> NewTeam(TeamName[t])]
    /\ players = [p \in {"p1"} |-> AuctionPlayer(p, 1)]
    /\ bids = <<>>
    /\ registrations = NoRegistrations
    /\ settings = NoSettings
    /\ tasks = NoTasks
    /\ resp = NoRequest

SpecMalformed == InitMalformed /\ [][NextMalformed]_vars

\* The request gives, for a player, team or registration, a string that is
\* not an id.
NamesMalformed(request) ==
    \E key \in {"player_id", "team_id", "registration_id"} \cap DOMAIN request :
        request[key] = MalformedId

Emails == {None, "ravi@dpl.in"}

TeamNames == {"Alpha", "Beta"}

\* The bodies of the create and update requests on players.
PlayerBodies == [name : {"Ravi"}, email : Emails, phone : Phones]
PlayerUpdates == [name : {None}, email : Emails, phone : Phones \cup {None}]

InitUnique ==
    /\ players = <<>>
    /\ teams = <<>>
    /\ bids = <<>>
    /\ registrations = NoRegistrations
    /\ settings = NoSettings
    /\ tasks = NoTasks
    /\ resp = NoRequest

CreatePlayer == \E player_data \in PlayerBodies : create_player(player_data)

UpdatePlayerPhone ==
    \E player_id \in DOMAIN players, player_data \in PlayerUpdates :
        update_player(player_id, player_data)

CreateTeam == \E name \in TeamNames : create_team([name |-> name])

UpdateTeamName ==
    \E team_id \in DOMAIN teams, name \in TeamNames :
        update_team(team_id, [name |-> name])

ApproveStored ==
    \E registration_id \in DOMAIN registrations :
        approve_registration(registration_id, <<"A">>)

NextUnique ==
    \/ CreatePlayer
    \/ UpdatePlayerPhone
    \/ CreateTeam
    \/ UpdateTeamName
    \/ CreateRegistration
    \/ ApproveStored

SpecUnique == InitUnique /\ [][NextUnique]_vars

\* No two documents of a collection hold the same value of a field.
Unique(collection, field) ==
    \A i, j \in DOMAIN collection :
        i # j => Get(collection[i], field, None) # Get(collection[j], field, None)

\* The request would give a record the unique field of another record.
WouldDuplicate(request) ==
    \/ /\ request.op = "create_player"
       /\ Existing(players, "phone", request.player_data.phone, None)
    \/ /\ request.op = "update_player"
       /\ request.player_data.phone # None
       /\ Existing(players, "phone", request.player_data.phone, request.player_id)
    \/ /\ request.op = "create_team"
       /\ Existing(teams, "name", request.team_data.name, None)
    \/ /\ request.op = "update_team"
       /\ Existing(teams, "name", request.team_data.name, request.team_id)
    \/ /\ request.op = "create_registration"
       /\ Existing(registrations, "phone", request.phone, None)

\* C26: no two players share a phone, no two teams a name and no two
\* registrations a phone; and a create or update request that would give a
\* record the unique field of another record is rejected and changes nothing.
C26_UniqueFields ==
    /\ [](/\ Unique(players, "phone")
          /\ Unique(teams, "name")
          /\ Unique(registrations, "phone"))
    /\ [][WouldDuplicate(resp') =>
              /\ resp'.exc # OK
              /\ UNCHANGED <<players, teams, bids, registrations>>]_vars

\* An update that asked for the phone of another player was refused; the two
\* players hold the two phones.
C26_Witness ==
    /\ resp.op = "update_player"
    /\ resp.exc = DuplicateKeyError
    /\ Cardinality(DOMAIN players) = 2
    /\ \A p \in DOMAIN players :
           /\ players[p].phone \in Phones
           /\ p # resp.player_id => players[p].phone = resp.player_data.phone
    /\ Cardinality(DOMAIN teams) = 2
    /\ registrations # NoRegistrations

(***************************************************************************)
(* SpecSaleThenIcon: sales at half a purse, and icon assignments and       *)
(* unassignments, on the stored players and teams.                         *)
(***************************************************************************)
NextSaleThenIcon ==
    \/ HalfPurseSale
    \/ AssignStored
    \/ UnassignStored

SpecSaleThenIcon == Init /\ [][NextSaleThenIcon]_vars

\* The team whose icon list a served icon request has rewritten: the team
\* assigned to, or the team the unassigned player was an icon of.
IconTeam ==
    IF resp'.op = "assign_icon_player"
    THEN resp'.team_id
    ELSE Get(players[resp'.player_id], "icon_player_team_id", None)

C28_StatusOnly ==
    [][(/\ resp'.op = "update_auction_status"
        /\ resp'.player_id \in DOMAIN players) =>
           LET p == resp'.player_id
           IN  /\ resp'.exc = OK
               /\ resp'.new_status \in AuctionStatus
               /\ DOMAIN players' = DOMAIN players
               /\ DOMAIN players'[p] = DOMAIN players[p] \cup {"auction_status"}
               /\ players'[p].auction_status = resp'.new_status
               /\ \A key \in DOMAIN players[p] \ {"auction_status"} :
                      players'[p][key] = players[p][key]
               /\ \A q \in DOMAIN players \ {p} : players'[q] = players[q]
               /\ UNCHANGED <<teams, bids>>]_vars

\* A player sold for 4000 was set back to pending: it keeps its price and its
\* buyer, and the buyer's purse stays debited.
C28_Witness ==
    /\ resp.op = "update_auction_status"
    /\ resp.exc = OK
    /\ resp.new_status = "pending"
    /\ players[resp.player_id].auction_status = "pending"
    /\ Get(players[resp.player_id], "sold_price", NoneInt) = 4000
    /\ Get(players[resp.player_id], "sold_to_team_id", None) \in DOMAIN teams
    /\ teams[players[resp.player_id].sold_to_team_id].purse_balance = 4000

(***************************************************************************)
(* SpecInitialize: initialize-all requests served one at a time, between   *)
(* order updates, on one player of the auction pool and two players made   *)
(* by create_player.                                                       *)
(***************************************************************************)
BasePrices == {DEFAULT_BASE_PRICE, 250}

InitializeAllAt ==
    \E base_price \in BasePrices : initialize_auction_for_all_players(base_price)

NextInitialize ==
    \/ InitializeAllAt
    \/ UpdateOrder

SpecInitialize == InitInitializeRace /\ [][NextInitialize]_vars

\* A step that served an initialize-all request.
InitializeStep == resp'.op = "initialize_auction_for_all_players"

\* C29: an initialize-all request gives every player without auction status
\* the status pending, the base price asked for, no icon mark and one of the
\* orders max+1 .. max+k, each of them given once, max being the largest
\* order stored before (0 when none is) and k the number of such players; it
\* leaves the other players as they were; and a second request right after
\* the first initialises no player and changes nothing.
C29_InitializeAll ==
    [][InitializeStep =>
           LET found == {p \in DOMAIN players : auction_status(p) = None}
               k == Cardinality(found)
               orders == {auction_order(p) : p \in DOMAIN players} \ {NoneInt}
               max == IF orders = {} THEN 0
                      ELSE CHOOSE m \in orders : \A o \in orders : o <= m
           IN  /\ resp'.exc = OK
               /\ resp'.initialized = k
               /\ DOMAIN players' = DOMAIN players
               /\ \A p \in found :
                      /\ players'[p].auction_status = "pending"
                      /\ players'[p].base_price = resp'.base_price
                      /\ players'[p].is_icon_player = FALSE
               /\ {players'[p].auction_order : p \in found} = (max + 1)..(max + k)
               /\ \A p \in DOMAIN players \ found : players'[p] = players[p]
               /\ UNCHANGED <<teams, bids>>
               /\ resp.op = "initialize_auction_for_all_players" =>
                      /\ resp'.initialized = 0
                      /\ players' = players]_vars

\* A request at 250 has initialised the two players made by create_player
\* when the largest order stored was 3: they hold 4 and 5.
C29_Witness ==
    /\ resp.op = "initialize_auction_for_all_players"
    /\ resp.initialized = 2
    /\ resp.base_price = 250
    /\ players["p1"].auction_order = 3
    /\ {players["p2"].auction_order, players["p3"].auction_order} = {4, 5}
    /\ players["p2"].base_price = 250
    /\ players["p3"].auction_status = "pending"

(***************************************************************************)
(* SpecAnySale: a first bid at the base price, status updates, and sales   *)
(* at 1 and at half a purse, to any stored team, of players of every       *)
(* status and of none.  A team buys at 1 only out of a purse no purchase   *)
(* at 1 was made from, which keeps the purses in a finite set.             *)
(***************************************************************************)
AnyPrices == {1, DEFAULT_PURSE_BALANCE \div 2}

AnySale ==
    \E pt \in StoredPairs, sale_price \in AnyPrices :
        /\ sale_price = 1 =>
               teams[pt[2]].purse_balance
                   \in {DEFAULT_PURSE_BALANCE, DEFAULT_PURSE_BALANCE \div 2}
        /\ finalize_player_sale(pt[1], pt[2], sale_price)

NextAnySale ==
    \/ FirstBid
    \/ StatusStored
    \/ AnySale

SpecAnySale == InitBid /\ [][NextAnySale]_vars

\* C30: a sale of a stored player to a stored team at a price the team's
\* purse covers is made, whatever the player's status and whatever bids the
\* player has: the player is sold to that team at that price.
C30_SaleUnconditioned ==
    [][(/\ SaleStep
        /\ resp'.player_id \in DOMAIN players
        /\ resp'.team_id \in DOMAIN teams
        /\ resp'.sale_price <= teams[resp'.team_id].purse_balance) =>
           /\ resp'.exc = OK
           /\ players'[resp'.player_id].auction_status = "sold"
           /\ players'[resp'.player_id].sold_to_team_id = resp'.team_id
           /\ players'[resp'.player_id].sold_price = resp'.sale_price]_vars

\* A player whose only bid, of 100, is from a team that has spent 4000 on a
\* purchase has been sold to the other team, which never bid, for 1.
C30_Witness ==
    /\ resp.op = "finalize_player_sale"
    /\ resp.exc = OK
    /\ resp.sale_price = 1
    /\ Len(bids) = 1
    /\ bids[1].player_id = resp.player_id
    /\ bids[1].team_id # resp.team_id
    /\ bids[1].amount > resp.sale_price
    /\ teams[bids[1].team_id].purse_balance = 4000
    /\ teams[resp.team_id].purse_balance = DEFAULT_PURSE_BALANCE - 1

(***************************************************************************)
(* BidController.delete_bid                                                *)
(***************************************************************************)

\* find_one({"_id": ObjectId(bid_id)}): the places in bids of the bid named
BidAt(bid_id) == {i \in 1..Len(bids) : BidIds[i] = bid_id}

\* delete_one on a list: the list without the entry at place i
DeleteAt(list, i) == SubSeq(list, 1, i - 1) \o SubSeq(list, i + 1, Len(list))

delete_bid(bid_id) ==
    LET request == [op |-> "delete_bid", bid_id |-> bid_id]
    IN  IF ~validate_object_id(bid_id)
        THEN Raise(request, HTTP_400_BAD_REQUEST)
        ELSE IF BidAt(bid_id) = {}
        THEN Raise(request, HTTP_404_NOT_FOUND)
        ELSE /\ bids' = DeleteAt(bids, CHOOSE i \in BidAt(bid_id) : TRUE)
             /\ UNCHANGED <<players, teams, registrations>>
             /\ Return(request)

(***************************************************************************)
(* SpecBidRecords: the bid records under every operation of the auction.   *)
(* One team bids on one player of the pool, each bid above the one before, *)
(* and bids are deleted, while the player is sold, marked unsold, given a  *)
(* status, an order, made an icon player and released, and the team is     *)
(* renamed.                                                                *)
(***************************************************************************)
RaiseBid ==
    /\ Len(bids) < MaxBids
    /\ \E pt \in StoredPairs, k \in 0..MaxBids :
          create_bid(pt[1], pt[2], DEFAULT_BASE_PRICE + k)

DeleteBid ==
    \E bid_id \in {BidIds[i] : i \in 1..Len(bids)} \cup {MissingId, MalformedId} :
        delete_bid(bid_id)

NextBidRecords ==
    \/ RaiseBid
    \/ DeleteBid
    \/ SaleAny
    \/ MarkUnsold
    \/ StatusAny
    \/ UpdateTeam
    \/ AssignIcon
    \/ UnassignIcon
    \/ OrderAny
    \/ InitializeAll
    \/ Randomize

SpecBidRecords == InitMalformed /\ [][NextBidRecords]_vars

\* C31: a stored bid is never rewritten: a step leaves the bids as they
\* were, or is an accepted create_bid that adds one record after them, or an
\* accepted delete_bid that takes one record out of them.
C31_BidsImmutable ==
    [][\/ bids' = bids
       \/ /\ resp'.op = "create_bid"
          /\ resp'.exc = OK
          /\ Len(bids') = Len(bids) + 1
          /\ SubSeq(bids', 1, Len(bids)) = bids
       \/ /\ resp'.op = "delete_bid"
          /\ resp'.exc = OK
          /\ \E i \in 1..Len(bids) : bids' = DeleteAt(bids, i)]_vars

\* The team was renamed after it bid twice, and the player sold to it: the
\* bids still carry the name the team had when it bid.
C31_Witness ==
    /\ Len(bids) = 2
    /\ "t1" \in DOMAIN teams
    /\ teams["t1"].name = "Gamma"
    /\ \A i \in 1..Len(bids) : bids[i].team_name = "Alpha" /\ bids[i].team_id = "t1"
    /\ "p1" \in DOMAIN players
    /\ Get(players["p1"], "auction_status", None) = "sold"

(***************************************************************************)
(* SpecApproval: approvals and rejections of stored registrations.  Two    *)
(* applicants have registered with every field of the form, one with an    *)
(* email address and one without; their registrations are approved under   *)
(* plain and padded payment references and rejected for two reasons.       *)
(***************************************************************************)

\* The registration document create_registration inserts for a request that
\* fills the form: model_dump() of the RegistrationCreate, pending.
Registered(player_name, phone, email, role) ==
    [player_name |-> player_name, email |-> email, phone |-> phone, role |-> role,
     place |-> "Kochi", panchayat |-> "Ward 4",
     player_image_url |-> <<"/uploads/registrations/", player_name, "_photo">>,
     payment_screenshot_url |-> <<"/uploads/registrations/", player_name, "_payment">>,
     id_proof_type |-> None, id_proof_url |-> None,
     status |-> "pending", rejection_reason |-> None]

InitApproval ==
    /\ players = <<>>
    /\ teams = [t \in TeamIds |-> NewTeam(TeamName[t])]
    /\ bids = <<>>
    /\ registrations =
          [r \in RegistrationIds |->
              IF r = "r1"
              THEN Registered("Asha", "9000000001", "asha@example.com", "bat")
              ELSE Registered("Binu", "9000000002", None, "all-rounder")]
    /\ settings = NoSettings
    /\ tasks = NoTasks
    /\ resp = NoRequest

RejectionReasons == {"late", "unpaid"}

RejectFor ==
    \E registration_id \in RegistrationArgs, rejection_reason \in RejectionReasons :
        reject_registration(registration_id, rejection_reason)

NextApproval == ApproveRegistration \/ RejectFor \/ UpdateRegistration

SpecApproval == InitApproval /\ [][NextApproval]_vars

\* The fields of the applicant in a registration, under the names a player
\* document gives them.
Applicant(registration) ==
    [name |-> registration.player_name, email |-> registration.email,
     phone |-> registration.phone, role |-> registration.role,
     place |-> registration.place, image_url |-> registration.player_image_url]

\* C32: an approve_registration that returns has written approved, no
\* rejection reason and the stripped payment reference to the registration,
\* and inserted one player, which carries the applicant's name, phone, email,
\* role, place and image and no auction_status; a reject_registration that
\* returns has written rejected and the reason given, and no player.
C32_ApprovalMakesPlayer ==
    [][/\ (resp'.op = "approve_registration" /\ resp'.exc = OK) =>
             LET r == resp'.registration_id
             IN  /\ registrations'[r].status = "approved"
                 /\ registrations'[r].rejection_reason = None
                 /\ registrations'[r].payment_reference = strip(resp'.payment_reference)
                 /\ \E q \in (DOMAIN players') \ (DOMAIN players) :
                       /\ DOMAIN players' = (DOMAIN players) \cup {q}
                       /\ \A key \in DOMAIN Applicant(registrations[r]) :
                             /\ key \in DOMAIN players'[q]
                             /\ players'[q][key] = Applicant(registrations[r])[key]
                       /\ "auction_status" \notin DOMAIN players'[q]
                 /\ \A p \in DOMAIN players : players'[p] = players[p]
       /\ (resp'.op = "reject_registration" /\ resp'.exc = OK) =>
             LET r == resp'.registration_id
             IN  /\ registrations'[r].status = "rejected"
                 /\ registrations'[r].rejection_reason = resp'.rejection_reason
                 /\ players' = players]_vars

\* A registration that had been rejected as unpaid was approved under a
\* padded reference: it holds the reference without the blank and no reason,
\* and the one player is its applicant, with an email address.
C32_Witness ==
    /\ resp.op = "approve_registration"
    /\ resp.exc = OK
    /\ resp.registration_id = "r1"
    /\ resp.payment_reference = <<"A", " ">>
    /\ registrations["r1"].status = "approved"
    /\ registrations["r1"].payment_reference = <<"A">>
    /\ registrations["r1"].rejection_reason = None
    /\ registrations["r2"].status = "rejected"
    /\ registrations["r2"].rejection_reason = "unpaid"
    /\ \E q \in DOMAIN players :
          /\ DOMAIN players = {q}
          /\ players[q].name = "Asha"
          /\ players[q].email = "asha@example.com"
          /\ players[q].role = "bat"

(***************************************************************************)
(* AuctionController.get_auction_summary                                   *)
(***************************************************************************)

\* The players a query of the summary finds.
\* {"auction_status": {"$ne": None}, "is_icon_player": {"$ne": True}}
query_in_auction ==
    {p \in DOMAIN players :
        /\ Get(players[p], "auction_status", None) # None
        /\ Get(players[p], "is_icon_player", FALSE) # TRUE}

\* {"auction_status": status}
WithStatus(status) ==
    {p \in DOMAIN players : Get(players[p], "auction_status", None) = status}

\* {"sold_to_team_id": team_id, "auction_status": "sold"}
sold_players_list(team_id) ==
    {p \in WithStatus("sold") : Get(players[p], "sold_to_team_id", None) = team_id}

\* sum(p.get("sold_price", 0) for p in ps), for players with a stored number
RECURSIVE sum_sold_price(_)
sum_sold_price(ps) ==
    IF ps = {} THEN 0
    ELSE LET p == CHOOSE q \in ps : TRUE
         IN  Get(players[p], "sold_price", 0) + sum_sold_price(ps \ {p})

\* find_one({"player_id": player_id}, sort=[("amount", -1)]): no bid, or the
\* one of the largest amount
highest_bid(player_id) ==
    IF BidsFor(player_id) = {} THEN <<>>
    ELSE <<bids[CHOOSE i \in BidsFor(player_id) :
                    \A j \in BidsFor(player_id) : bids[j].amount <= bids[i].amount]>>

\* The numbers of a set, largest first: {"$sort": {"timestamp": -1}}
RECURSIVE Descending(_)
Descending(set) ==
    IF set = {} THEN <<>>
    ELSE LET m == CHOOSE x \in set : \A y \in set : y <= x
         IN  <<m>> \o Descending(set \ {m})

\* {"$limit": 10}
RECENT_LIMIT == 10

\* The pipeline of the summary: the bids latest first, the first of each
\* player, latest first, ten of them at most.  A bid's timestamp is its place
\* in bids.
recent_bids ==
    LET first == {i \in 1..Len(bids) : \A j \in BidsFor(bids[i].player_id) : j <= i}
        sorted == Descending(first)
    IN  SubSeq(sorted, 1, IF Len(sorted) < RECENT_LIMIT THEN Len(sorted) ELSE RECENT_LIMIT)

\* The entry of recent_activity for the bid at place i.
activity(i) ==
    [player_id |-> bids[i].player_id, amount |-> bids[i].amount,
     team_name |-> bids[i].team_name, team_id |-> bids[i].team_id,
     timestamp |-> i,
     player_status |-> IF bids[i].player_id \in DOMAIN players
                       THEN Get(players[bids[i].player_id], "auction_status", None)
                       ELSE None]

\* The summary stores nothing.  Python cannot add None to an int, so a sold
\* player whose document holds sold_price None makes the sum of the sold
\* prices raise TypeError.
get_auction_summary ==
    LET request == [op |-> "get_auction_summary"]
    IN  IF \E p \in WithStatus("sold") : Get(players[p], "sold_price", 0) = NoneInt
        THEN Raise(request, TypeError)
        ELSE /\ UNCHANGED <<players, teams, bids, registrations>>
             /\ Return(Set(request,
                   [stats |-> [total_players |-> Cardinality(query_in_auction),
                               pending |-> Cardinality(query_in_auction
                                                          \cap WithStatus("pending")),
                               live |-> Cardinality(WithStatus("live")),
                               sold |-> Cardinality(WithStatus("sold")),
                               unsold |-> Cardinality(WithStatus("unsold")),
                               total_auction_value |-> sum_sold_price(WithStatus("sold"))],
                    live_players |-> [p \in WithStatus("live") |-> highest_bid(p)],
                    recent_activity |-> [k \in 1..Len(recent_bids) |->
                                            activity(recent_bids[k])],
                    team_progress |->
                        [t \in DOMAIN teams |->
                            [total_spent |-> sum_sold_price(sold_players_list(t)),
                             purse_balance |-> Get(teams[t], "purse_balance",
                                                   DEFAULT_PURSE_BALANCE)]]]))

(***************************************************************************)
(* SpecSummary: the summary of an auction in progress.  Team Alpha bids on *)
(* two players of the pool, players are sold at half a purse, made icon    *)
(* players and given the statuses pending and sold, and the summary is     *)
(* read in between.                                                        *)
(***************************************************************************)
GetSummary == get_auction_summary

AlphaBids ==
    /\ Len(bids) < MaxBids
    /\ \E player_id \in DOMAIN players, k \in 0..1 :
          create_bid(player_id, "t1", DEFAULT_BASE_PRICE + k)

NextSummary ==
    \/ AlphaBids
    \/ HalfPurseSale
    \/ SoldOrPending
    \/ AssignStored
    \/ GetSummary

SpecSummary == Init /\ [][NextSummary]_vars

\* C33: get_auction_summary writes nothing and reports: as total_players and
\* pending the numbers of players that have a status, resp. the status
\* pending, and are no icon players; for every live player a bid of the
\* player that no bid of the player exceeds, or none when it has no bid; in
\* recent_activity at most one entry per player, each the latest bid of its
\* player; and for every team the sum of sold_price over the sold players
\* whose sold_to_team_id it is, with the purse_balance it stores.
C33_Summary ==
    [][resp'.op = "get_auction_summary" =>
          /\ UNCHANGED <<players, teams, bids, registrations>>
          /\ resp'.exc = OK
          /\ resp'.stats.total_players =
                Cardinality({p \in DOMAIN players :
                                /\ auction_status(p) # None
                                /\ ~Get(players[p], "is_icon_player", FALSE)})
          /\ resp'.stats.pending =
                Cardinality({p \in DOMAIN players :
                                /\ auction_status(p) = "pending"
                                /\ ~Get(players[p], "is_icon_player", FALSE)})
          /\ \A p \in DOMAIN players :
                auction_status(p) = "live" =>
                    /\ p \in DOMAIN resp'.live_players
                    /\ BidsFor(p) = {} => resp'.live_players[p] = <<>>
                    /\ BidsFor(p) # {} =>
                          \E i \in BidsFor(p) :
                              /\ resp'.live_players[p] = <<bids[i]>>
                              /\ \A j \in BidsFor(p) : bids[j].amount <= bids[i].amount
          /\ \A k \in DOMAIN resp'.recent_activity :
                LET entry == resp'.recent_activity[k]
                IN  /\ \A l \in DOMAIN resp'.recent_activity :
                          l # k => resp'.recent_activity[l].player_id # entry.player_id
                    /\ entry.timestamp \in BidsFor(entry.player_id)
                    /\ \A j \in BidsFor(entry.player_id) : j <= entry.timestamp
                    /\ entry.amount = bids[entry.timestamp].amount
                    /\ entry.team_id = bids[entry.timestamp].team_id
          /\ \A t \in DOMAIN teams :
                /\ resp'.team_progress[t].total_spent =
                      SoldSum(t, {p \in DOMAIN players : auction_status(p) = "sold"})
                /\ resp'.team_progress[t].purse_balance = teams[t].purse_balance]_vars

(***************************************************************************)
(* create_bid, assign_icon_player and unassign_icon_player, await by await *)
(***************************************************************************)

\* A request that is being served leaves every collection as it is.
Reads == UNCHANGED <<players, teams, bids, registrations, settings>>

\* create_bid up to its second read: the id check and the read of the player.
create_bid_find_player(task, player_id, team_id, amount) ==
    LET request == [op |-> "create_bid", player_id |-> player_id,
                    team_id |-> team_id, amount |-> amount]
    IN  /\ task \notin DOMAIN tasks
        /\ IF ~validate_object_id(player_id) \/ ~validate_object_id(team_id)
           THEN Raise(request, HTTP_400_BAD_REQUEST)
           ELSE IF player_id \notin DOMAIN players
           THEN Raise(request, HTTP_404_NOT_FOUND)
           ELSE /\ Await(task, Set(request,
                       [pc |-> "find_team",
                        base_price |-> Get(players[player_id], "base_price",
                                           DEFAULT_BASE_PRICE)]))
                /\ Reads

\* The read of the team and the purse check on the balance read.
create_bid_find_team(task) ==
    /\ task \in DOMAIN tasks
    /\ tasks[task].op = "create_bid"
    /\ tasks[task].pc = "find_team"
    /\ Reads
    /\ LET call == tasks[task]
       IN  IF call.team_id \notin DOMAIN teams
           THEN Done(task, RequestOf(task), HTTP_404_NOT_FOUND)
           ELSE IF InsufficientPurse(call.amount,
                       Get(teams[call.team_id], "purse_balance", DEFAULT_PURSE_BALANCE))
           THEN Done(task, RequestOf(task), HTTP_400_BAD_REQUEST)
           ELSE Await(task, [pc |-> "find_highest",
                             team_name |-> Get(teams[call.team_id], "name", None)])

\* The read of the player's highest bid and the check of the amount against
\* it, or against the base price read with the player.
create_bid_find_highest(task) ==
    /\ task \in DOMAIN tasks
    /\ tasks[task].op = "create_bid"
    /\ tasks[task].pc = "find_highest"
    /\ Reads
    /\ LET call == tasks[task]
           exc == BidCheck(call.player_id, call.amount, call.base_price)
       IN  IF exc # OK
           THEN Done(task, RequestOf(task), exc)
           ELSE Await(task, [pc |-> "insert_one"])

\* bids_collection.insert_one(bid_doc)
create_bid_insert_one(task) ==
    /\ task \in DOMAIN tasks
    /\ tasks[task].op = "create_bid"
    /\ tasks[task].pc = "insert_one"
    /\ LET call == tasks[task]
       IN  bids' = Append(bids, bid_doc(call.player_id, call.team_id, call.amount,
                                        [name |-> call.team_name]))
    /\ Await(task, [pc |-> "update_player"])
    /\ UNCHANGED <<players, teams, registrations, settings>>

\* players.update_one: the status live, on the player if it is still stored
create_bid_update_player(task) ==
    /\ task \in DOMAIN tasks
    /\ tasks[task].op = "create_bid"
    /\ tasks[task].pc = "update_player"
    /\ LET call == tasks[task]
       IN  players' = IF call.player_id \in DOMAIN players
                      THEN [players EXCEPT ![call.player_id] =
                               Set(@, [auction_status |-> "live"])]
                      ELSE players
    /\ Await(task, [pc |-> "find_created"])
    /\ UNCHANGED <<teams, bids, registrations, settings>>

\* The read of the bid create_bid returns.
create_bid_find_created(task) ==
    /\ task \in DOMAIN tasks
    /\ tasks[task].op = "create_bid"
    /\ tasks[task].pc = "find_created"
    /\ Done(task, RequestOf(task), OK)
    /\ Reads

\* assign_icon_player up to its second read: the id check, the read of the
\* player and the check that it is no icon player.
assign_find_player(task, player_id, team_id) ==
    LET request == [op |-> "assign_icon_player", player_id |-> player_id,
                    team_id |-> team_id]
    IN  /\ task \notin DOMAIN tasks
        /\ IF ~validate_object_id(player_id) \/ ~validate_object_id(team_id)
           THEN Raise(request, HTTP_400_BAD_REQUEST)
           ELSE IF player_id \notin DOMAIN players
           THEN Raise(request, HTTP_404_NOT_FOUND)
           ELSE IF Get(players[player_id], "is_icon_player", FALSE)
           THEN Raise(request, HTTP_400_BAD_REQUEST)
           ELSE /\ Await(task, Set(request, [pc |-> "find_team"]))
                /\ Reads

\* The read of the team and the cap on the icon list read.
assign_find_team(task) ==
    /\ task \in DOMAIN tasks
    /\ tasks[task].op = "assign_icon_player"
    /\ tasks[task].pc = "find_team"
    /\ Reads
    /\ LET call == tasks[task]
       IN  IF call.team_id \notin DOMAIN teams
           THEN Done(task, RequestOf(task), HTTP_404_NOT_FOUND)
           ELSE IF IconListFull(Get(teams[call.team_id], "icon_player_ids", <<>>))
           THEN Done(task, RequestOf(task), HTTP_400_BAD_REQUEST)
           ELSE Await(task, [pc |-> "update_player",
                             icon_player_ids |->
                                 Get(teams[call.team_id], "icon_player_ids", <<>>)])

\* players.update_one: the icon flag and the team, on the player if stored
assign_update_player(task) ==
    /\ task \in DOMAIN tasks
    /\ tasks[task].op = "assign_icon_player"
    /\ tasks[task].pc = "update_player"
    /\ LET call == tasks[task]
       IN  players' = IF call.player_id \in DOMAIN players
                      THEN [players EXCEPT ![call.player_id] =
                               Set(@, [is_icon_player |-> TRUE,
                                       icon_player_team_id |-> call.team_id])]
                      ELSE players
    /\ Await(task, [pc |-> "update_team"])
    /\ UNCHANGED <<teams, bids, registrations, settings>>

\* teams.update_one: the list read, with the player appended, and the purse
\* computed from its length.
assign_update_team(task) ==
    /\ task \in DOMAIN tasks
    /\ tasks[task].op = "assign_icon_player"
    /\ tasks[task].pc = "update_team"
    /\ LET call == tasks[task]
           icon_player_ids == Append(call.icon_player_ids, call.player_id)
       IN  /\ teams' = IF call.team_id \in DOMAIN teams
                       THEN [teams EXCEPT ![call.team_id] =
                                Set(@, [icon_player_ids |-> icon_player_ids,
                                        purse_balance |->
                                            new_purse_balance(icon_player_ids)])]
                       ELSE teams
           /\ Await(task, [pc |-> "find_updated",
                           icon_player_ids |-> icon_player_ids])
    /\ UNCHANGED <<players, bids, registrations, settings>>

\* The reads of the player and the team that assign_icon_player returns, and
\* the read of the player that unassign_icon_player returns.
icon_find_updated(task) ==
    /\ task \in DOMAIN tasks
    /\ tasks[task].op \in {"assign_icon_player", "unassign_icon_player"}
    /\ tasks[task].pc = "find_updated"
    /\ Done(task, RequestOf(task), OK)
    /\ Reads

\* unassign_icon_player up to its first write: the id check, the read of the
\* player and the check that it is an icon player.
unassign_find_player(task, player_id) ==
    LET request == [op |-> "unassign_icon_player", player_id |-> player_id]
    IN  /\ task \notin DOMAIN tasks
        /\ IF ~validate_object_id(player_id)
           THEN Raise(request, HTTP_400_BAD_REQUEST)
           ELSE IF player_id \notin DOMAIN players
           THEN Raise(request, HTTP_404_NOT_FOUND)
           ELSE IF ~Get(players[player_id], "is_icon_player", FALSE)
           THEN Raise(request, HTTP_400_BAD_REQUEST)
           ELSE /\ Await(task, Set(request,
                       [pc |-> "update_player",
                        icon_player_team_id |->
                            Get(players[player_id], "icon_player_team_id", None)]))
                /\ Reads

\* players.update_one: the icon flag and the team cleared; the team is read
\* next when the player named one.
unassign_update_player(task) ==
    /\ task \in DOMAIN tasks
    /\ tasks[task].op = "unassign_icon_player"
    /\ tasks[task].pc = "update_player"
    /\ LET call == tasks[task]
       IN  /\ players' = IF call.player_id \in DOMAIN players
                         THEN [players EXCEPT ![call.player_id] =
                                  Set(@, [is_icon_player |-> FALSE,
                                          icon_player_team_id |-> None])]
                         ELSE players
           /\ IF /\ call.icon_player_team_id # None
                 /\ validate_object_id(call.icon_player_team_id)
              THEN Await(task, [pc |-> "find_team"])
              ELSE Await(task, [pc |-> "find_updated"])
    /\ UNCHANGED <<teams, bids, registrations, settings>>

\* The read of the team: its icon list, without the player.
unassign_find_team(task) ==
    /\ task \in DOMAIN tasks
    /\ tasks[task].op = "unassign_icon_player"
    /\ tasks[task].pc = "find_team"
    /\ Reads
    /\ LET call == tasks[task]
       IN  IF call.icon_player_team_id \notin DOMAIN teams
           THEN Await(task, [pc |-> "find_updated"])
           ELSE Await(task, [pc |-> "update_team",
                             icon_player_ids |->
                                 Remove(Get(teams[call.icon_player_team_id],
                                            "icon_player_ids", <<>>),
                                        call.player_id)])

\* teams.update_one: the list read, without the player, and the purse
\* computed from its length.
unassign_update_team(task) ==
    /\ task \in DOMAIN tasks
    /\ tasks[task].op = "unassign_icon_player"
    /\ tasks[task].pc = "update_team"
    /\ LET call == tasks[task]
       IN  teams' = IF call.icon_player_team_id \in DOMAIN teams
                    THEN [teams EXCEPT ![call.icon_player_team_id] =
                             Set(@, [icon_player_ids |-> call.icon_player_ids,
                                     purse_balance |->
                                         new_purse_balance(call.icon_player_ids)])]
                    ELSE teams
    /\ Await(task, [pc |-> "find_updated"])
    /\ UNCHANGED <<players, bids, registrations, settings>>

(***************************************************************************)
(* SpecPurseRace: three requests served at once, each a bid, a sale, an    *)
(* icon assignment or its release, on two players of the pool and one team *)
(* with the default purse.  A sale is free, or costs 5000 or the whole     *)
(* purse; a bid is the base price or the whole purse.                      *)
(***************************************************************************)
InitPurseRace ==
    /\ teams = [t \in {"t1"} |-> NewTeam(TeamName[t])]
    /\ players = [p \in {"p1", "p2"} |-> AuctionPlayer(p, IF p = "p1" THEN 1 ELSE 2)]
    /\ bids = <<>>
    /\ registrations = NoRegistrations
    /\ settings = NoSettings
    /\ tasks = NoTasks
    /\ resp = NoRequest

PurseRacePrices == {0, 5000, DEFAULT_PURSE_BALANCE}

RaceBegins ==
    \E task \in Readers, pt \in StoredPairs :
        \/ \E sale_price \in PurseRacePrices :
               finalize_find_team(task, pt[1], pt[2], sale_price)
        \/ \E amount \in {DEFAULT_BASE_PRICE, DEFAULT_PURSE_BALANCE} :
               create_bid_find_player(task, pt[1], pt[2], amount)
        \/ assign_find_player(task, pt[1], pt[2])
        \/ unassign_find_player(task, pt[1])

BidProceeds ==
    \E task \in Readers :
        \/ create_bid_find_team(task)
        \/ create_bid_find_highest(task)
        \/ create_bid_insert_one(task)
        \/ create_bid_update_player(task)
        \/ create_bid_find_created(task)

SaleProceeds ==
    \E task \in Readers :
        \/ finalize_update_player(task)
        \/ finalize_update_team(task)
        \/ finalize_find_player(task)

AssignProceeds ==
    \E task \in Readers :
        \/ assign_find_team(task)
        \/ assign_update_player(task)
        \/ assign_update_team(task)
        \/ icon_find_updated(task)

UnassignProceeds ==
    \E task \in Readers :
        \/ unassign_update_player(task)
        \/ unassign_find_team(task)
        \/ unassign_update_team(task)

NextPurseRace ==
    \/ RaceBegins
    \/ BidProceeds
    \/ SaleProceeds
    \/ AssignProceeds
    \/ UnassignProceeds

SpecPurseRace == InitPurseRace /\ [][NextPurseRace]_vars

\* C34: whatever the interleaving of the reads and writes of bids, sales at a
\* price of 0 or more, icon assignments and releases, no team stores a
\* negative purse_balance.
C34_PurseNeverNegative ==
    \A t \in DOMAIN teams : teams[t].purse_balance >= 0

\* Two sales of 5000 and of 8000 that read the purse before either wrote it
\* were both served, and an icon assignment wrote the purse between their
\* writes: the team holds nothing, and has sold and icon players worth 14500.
C34_Witness ==
    /\ teams["t1"].purse_balance = 0
    /\ Len(teams["t1"].icon_player_ids) = 1
    /\ \E a, b \in DOMAIN tasks :
          /\ tasks[a].op = "finalize_player_sale" /\ tasks[a].pc = OK
          /\ tasks[b].op = "finalize_player_sale" /\ tasks[b].pc = OK
          /\ tasks[a].sale_price = 5000
          /\ tasks[b].sale_price = DEFAULT_PURSE_BALANCE
          /\ tasks[a].player_id # tasks[b].player_id
          /\ players[tasks[a].player_id].sold_price = 5000
          /\ players[tasks[b].player_id].sold_price = DEFAULT_PURSE_BALANCE

(***************************************************************************)
(* SpecSignedSale: sales at the prices the route takes, which is any int:  *)
(* a price below zero, zero, and half the default purse.  A price below    *)
(* zero is asked only of a team that holds no more than the default purse. *)
(***************************************************************************)
SignedPrices == {-1000, 0, DEFAULT_PURSE_BALANCE \div 2}

SignedSale ==
    \E pt \in StoredPairs, sale_price \in SignedPrices :
        /\ sale_price < 0 => teams[pt[2]].purse_balance <= DEFAULT_PURSE_BALANCE
        /\ finalize_player_sale(pt[1], pt[2], sale_price)

NextSignedSale == SignedSale \/ UnsoldStored

SpecSignedSale == Init /\ [][NextSignedSale]_vars

\* C35: a finalize_player_sale that returns leaves the team with no more
\* than it had, and the player with a sold_price above zero.
C35_SaleNeverRaisesPurse ==
    [][(resp'.op = "finalize_player_sale" /\ resp'.exc = OK) =>
          /\ teams'[resp'.team_id].purse_balance <= teams[resp'.team_id].purse_balance
          /\ players'[resp'.player_id].sold_price > 0]_vars

(***************************************************************************)
(* SpecIconPool: icon players and the auction pool.  One player is in the  *)
(* pool and two were made by create_player, without auction status; they   *)
(* are assigned to the two teams as icon players and released, and the     *)
(* players without status are taken into the pool.                         *)
(***************************************************************************)
NextIconPool == AssignStored \/ UnassignStored \/ InitializeAll

SpecIconPool == InitInitializeRace /\ [][NextIconPool]_vars

\* C36: a team's icon list holds a player exactly when the player is flagged
\* as an icon player of that team.
C36_IconBookkeeping ==
    \A t \in DOMAIN teams, p \in DOMAIN players :
        (\E i \in DOMAIN teams[t].icon_player_ids : teams[t].icon_player_ids[i] = p)
            <=> ( /\ Get(players[p], "is_icon_player", FALSE)
                  /\ Get(players[p], "icon_player_team_id", None) = t )

(***************************************************************************)
(* SpecIconRace: up to three icon assignments served at once, all for the  *)
(* same team and each for another of three players of the pool.            *)
(***************************************************************************)
IconRaceBegins ==
    \E task \in Readers, pt \in StoredPairs :
        /\ \A other \in DOMAIN tasks :
              tasks[other].team_id = pt[2] /\ tasks[other].player_id # pt[1]
        /\ assign_find_player(task, pt[1], pt[2])

NextIconRace == IconRaceBegins \/ AssignProceeds

SpecIconRace == InitIcon /\ [][NextIconRace]_vars

\* The players flagged as icon players of a team.
IconPlayersOf(t) ==
    {p \in DOMAIN players :
        /\ Get(players[p], "is_icon_player", FALSE)
        /\ Get(players[p], "icon_player_team_id", None) = t}

\* Every request that was taken up has been answered.
AllServed == \A task \in DOMAIN tasks : tasks[task].pc \notin {"find_team", "update_player", "update_team", "find_updated"}

\* C37: however icon assignments to one team interleave, the team never has
\* more than 2 players flagged as its icon players, and once every request
\* is answered its purse is 8000 less 1500 for each of them.
C37_IconCapUnderRace ==
    \A t \in DOMAIN teams :
        /\ Cardinality(IconPlayersOf(t)) <= MAX_ICON_PLAYERS
        /\ AllServed =>
              teams[t].purse_balance =
                  DEFAULT_PURSE_BALANCE - ICON_PLAYER_COST * Cardinality(IconPlayersOf(t))

(***************************************************************************)
(* SpecBidRace: up to three bids on one player served at once, by either   *)
(* team, at the base price and just above it.                              *)
(***************************************************************************)
BidRaceBegins ==
    \E task \in Readers, pt \in StoredPairs, k \in 0..1 :
        /\ \A other \in DOMAIN tasks : tasks[other].player_id = pt[1]
        /\ create_bid_find_player(task, pt[1], pt[2], DEFAULT_BASE_PRICE + k)

NextBidRace == BidRaceBegins \/ BidProceeds

SpecBidRace == Init /\ [][NextBidRace]_vars

\* C38: however bids on one player interleave, every stored bid of the
\* player is above every bid of the player stored before it, so no two of
\* them have the same amount.
C38_BidsAscendUnderRace ==
    \A i, j \in 1..Len(bids) :
        (i < j /\ bids[i].player_id = bids[j].player_id)
            => bids[i].amount < bids[j].amount

(***************************************************************************)
(* Uniqueness of the auction orders under update_auction_order, checked    *)
(* under SpecOrder, where randomizations and status updates also bring     *)
(* about stores in which two players share an order.                       *)
(***************************************************************************)

\* No two players have the same auction order.
OrdersDiffer ==
    \A p, q \in DOMAIN players :
        (p # q /\ auction_order(p) # NoneInt) => auction_order(p) # auction_order(q)

\* The number of players that have the order n, or none when n is NoneInt.
OrderCount(n) == Cardinality({p \in DOMAIN players : auction_order(p) = n})

\* C39: an update_auction_order that returns, in a store where the orders
\* differ, leaves a store where the orders differ; when it swapped two
\* players, every order has as many holders as before.
C39_UpdateKeepsOrdersUnique ==
    [][( /\ resp'.op = "update_auction_order"
         /\ resp'.exc = OK
         /\ OrdersDiffer ) =>
          /\ OrdersDiffer'
          /\ resp'.swapped_with # None =>
                \A n \in (1..MaxOrder) \cup {NoneInt} : OrderCount(n)' = OrderCount(n)]_vars

\* A player without order has just been given the order of another player,
\* which is left without order, while the third keeps its own: the orders
\* differ.
C39_Witness ==
    /\ resp.op = "update_auction_order"
    /\ resp.exc = OK
    /\ resp.swapped_with # None
    /\ OrdersDiffer
    /\ auction_order(resp.swapped_with) = NoneInt
    /\ OrderCount(NoneInt) = 1
    /\ \E q \in DOMAIN players \ {resp.player_id, resp.swapped_with} :
          auction_order(q) \notin {NoneInt, resp.new_order}

(***************************************************************************)
(* The players of a registration, checked under SpecApproval, where a      *)
(* registration is approved, rejected and updated any number of times.     *)
(***************************************************************************)

\* The players made from a registration: those that carry its phone, which
\* no request changes.
PlayersFrom(r) ==
    {q \in DOMAIN players : players[q].phone = registrations[r].phone}

\* C40: no registration ever has more than one player made from it, and an
\* approve_registration whose insert of the player fails does not leave the
\* registration approved.
C40_OnePlayerPerRegistration ==
    /\ [](\A r \in DOMAIN registrations : Cardinality(PlayersFrom(r)) <= 1)
    /\ [][(resp'.op = "approve_registration" /\ resp'.exc = DuplicateKeyError) =>
             registrations'[resp'.registration_id].status # "approved"]_vars

====
